---- MODULE Spec2Model ----
(***************************************************************************)
(* Position lifecycle and ledger engine of kallisti-scalper.               *)
(*                                                                         *)
(* Number representation.  The program computes in IEEE doubles; the model *)
(* is fixed point:                                                         *)
(*   - money is in cents (balance, collateral, pnl, fees, thresholds);     *)
(*   - prices are whole dollars; the derived levels stopLoss / takeProfit  *)
(*     are in 1/10000 dollar, so entryPrice * (1 -+ pct/100) is exact;     *)
(*   - time is in seconds (Date.now() / 1000).                             *)
(* The one inexact step is grossPnl, the quotient (move / entry) * size,   *)
(* which is rounded down to the cent.                                      *)
(***************************************************************************)
EXTENDS Integers, Sequences, FiniteSets, TLC

(***************************************************************************)
(* config (v3.1)                                                           *)
(***************************************************************************)
leverage == 75
maxPositions == 1
takerFeeBp == 4                 \* takerFeePercent 0.04, in 1/100 percent
makerFeeBp == 2                 \* makerFeePercent 0.02, in 1/100 percent
feeMode == "taker"
minProfitDollars == 2500        \* 25 dollars
maxProfitDollars == 10000       \* 100 dollars
quickGrabDollars == 1000        \* 10 dollars
targetProfitBp == 25            \* targetProfitPercent 0.25, in 1/100 percent
initialStopBp == 15             \* initialStopPercent 0.15, in 1/100 percent
maxTradeSeconds == 150
quickExitSeconds == 30
breakevenSeconds == 90          \* literal in updatePosition
underwaterCutSeconds == 120
underwaterMinLoss == -1000      \* -10 dollars
initialBalance == 200000        \* 2000 dollars
positionSizeDollars == 50000    \* 500 dollars
riskPerTrade == 50000           \* 500 dollars
maxDailyLossDollars == 20000    \* 200 dollars
maxConsecutiveLosses == 3
pauseAfterLossesMinutes == 30
maxTradesPerHour == 4
HourSeconds == 3600             \* 3600000 ms
DaySeconds == 86400
SCAN_INTERVAL == 30             \* SCAN_INTERVAL_MS 30_000
GITHUB_SYNC_INTERVAL == 300     \* GITHUB_SYNC_INTERVAL_MS 300_000
MIN_SIGNAL_INTERVAL == 30       \* 30_000 ms

(***************************************************************************)
(* Bounds of the model                                                     *)
(***************************************************************************)
MaxClock == 2                   \* scans in one run
MaxOpens == 3                   \* openPosition calls a caller makes (LedgerSpec)
MaxCloses == 3                  \* closePosition calls a caller makes (LedgerSpec)
MaxAdvances == 1                \* clock advances between the calls (LedgerSpec)
MaxFaults == 1                  \* failed requests and writes by other writers
MaxPushes == 2                  \* pushLedger calls in one run (PushSpec)

Sides == {"Long", "Short"}
\* Bar closes the data feed may deliver: around an entry at 70000, the stop
\* of a Long and the max-profit level of a Short (69890), the entry, and the
\* max-profit level of a Long and the stop of a Short (70250).
Prices == {69890, 70000, 70250}
StartTime == 82800              \* 23:00 UTC of day 0
\* The time from one scan to the next: the sleep, or over an hour when the
\* scan or the sleep was held up.
Steps == {SCAN_INTERVAL, HourSeconds + 1}
LedgerSides == {"Long"}
LedgerEntries == {70000}           \* entry prices of the ledger calls
LedgerPrices == {69500, 70250}      \* exit prices: a loss past the daily cap, a win
LedgerSteps == {1800}

Abs(x) == IF x < 0 THEN -x ELSE x

(***************************************************************************)
(* risk/recovery-manager.ts                                                *)
(***************************************************************************)
\* posSize in cents; fees = posSize * (feeRate / 100) * 2
calcFees(positionSize) ==
    LET feeRate == IF feeMode = "taker" THEN takerFeeBp ELSE makerFeeBp
    IN  (positionSize * feeRate * 2) \div 10000

\* createPosition placing the stop and the target of a Short as for a Long
createPosition_sameSide(side, entryPrice, collateral, t, r) ==
    [ id              |-> <<t, r>>,
      side            |-> side,
      entryPrice      |-> entryPrice,
      entryTime       |-> t,
      collateral      |-> collateral,
      leverage        |-> leverage,
      stopLoss        |-> entryPrice * (10000 - initialStopBp),
      takeProfit      |-> entryPrice * (10000 + targetProfitBp),
      minProfitTarget |-> minProfitDollars,
      maxProfitTarget |-> maxProfitDollars,
      status          |-> "open",
      exitPrice       |-> 0,
      exitTime        |-> 0,
      pnl             |-> 0,
      fees            |-> 0,
      grossPnl        |-> 0,
      reason          |-> "" ]

\* createPosition with an id made of the random suffix alone
createPosition_randomId(side, entryPrice, collateral, t, r) ==
    [createPosition_sameSide(side, entryPrice, collateral, t, r) EXCEPT
        !.id = <<0, r>>,
        !.stopLoss = IF side = "Long"
                     THEN entryPrice * (10000 - initialStopBp)
                     ELSE entryPrice * (10000 + initialStopBp),
        !.takeProfit = IF side = "Long"
                       THEN entryPrice * (10000 + targetProfitBp)
                       ELSE entryPrice * (10000 - targetProfitBp)]

\* The id `snipe-${Date.now()}-${random}` is the pair <<time, r>>.
createPosition(side, entryPrice, collateral, t, r) ==
    [ id              |-> <<t, r>>,
      side            |-> side,
      entryPrice      |-> entryPrice,
      entryTime       |-> t,
      collateral      |-> collateral,
      leverage        |-> leverage,
      stopLoss        |-> IF side = "Long"
                          THEN entryPrice * (10000 - initialStopBp)
                          ELSE entryPrice * (10000 + initialStopBp),
      takeProfit      |-> IF side = "Long"
                          THEN entryPrice * (10000 + targetProfitBp)
                          ELSE entryPrice * (10000 - targetProfitBp),
      minProfitTarget |-> minProfitDollars,
      maxProfitTarget |-> maxProfitDollars,
      status          |-> "open",
      exitPrice       |-> 0,        \* the optional fields: 0 / "" is undefined
      exitTime        |-> 0,
      pnl             |-> 0,
      fees            |-> 0,
      grossPnl        |-> 0,
      reason          |-> "" ]

\* grossPnl = (grossPnlPct / 100) * posSize, in cents
GrossPnl(position, price) ==
    LET posSize == position.collateral * position.leverage
        move    == IF position.side = "Long"
                   THEN price - position.entryPrice
                   ELSE position.entryPrice - price
    IN  (move * posSize) \div position.entryPrice

NetPnl(position, price) ==
    GrossPnl(position, price) - calcFees(position.collateral * position.leverage)

\* updatePosition with the profit targets tested ahead of the stop
updatePosition_targetsFirst(position, currentPrice, t) ==
    LET elapsed == t - position.entryTime
        netPnl  == NetPnl(position, currentPrice)
        close(reason) ==
            [shouldClose |-> TRUE, reason |-> reason, exitPrice |-> currentPrice]
    IN  IF netPnl >= position.maxProfitTarget
          THEN close("max-profit")
        ELSE IF netPnl >= position.minProfitTarget
          THEN close("take-profit")
        ELSE IF position.side = "Long" /\ currentPrice * 10000 <= position.stopLoss
          THEN close("stop-loss")
        ELSE IF position.side = "Short" /\ currentPrice * 10000 >= position.stopLoss
          THEN close("stop-loss")
        ELSE IF elapsed >= quickExitSeconds /\ netPnl >= quickGrabDollars
          THEN close("quick-profit")
        ELSE IF elapsed >= breakevenSeconds /\ netPnl >= 0
          THEN close("breakeven-exit")
        ELSE IF elapsed >= underwaterCutSeconds /\ netPnl < underwaterMinLoss
          THEN close("underwater-cut")
        ELSE IF elapsed >= maxTradeSeconds
          THEN close(IF netPnl >= 0 THEN "timeout-green" ELSE "timeout-red")
        ELSE [shouldClose |-> FALSE, reason |-> "", exitPrice |-> 0]

\* updatePosition with the breakeven rung left out
updatePosition_noBreakeven(position, currentPrice, t) ==
    LET elapsed == t - position.entryTime
        netPnl  == NetPnl(position, currentPrice)
        close(reason) ==
            [shouldClose |-> TRUE, reason |-> reason, exitPrice |-> currentPrice]
    IN  IF position.side = "Long" /\ currentPrice * 10000 <= position.stopLoss
          THEN close("stop-loss")
        ELSE IF position.side = "Short" /\ currentPrice * 10000 >= position.stopLoss
          THEN close("stop-loss")
        ELSE IF netPnl >= position.maxProfitTarget
          THEN close("max-profit")
        ELSE IF netPnl >= position.minProfitTarget
          THEN close("take-profit")
        ELSE IF elapsed >= quickExitSeconds /\ netPnl >= quickGrabDollars
          THEN close("quick-profit")
        ELSE IF elapsed >= underwaterCutSeconds /\ netPnl < underwaterMinLoss
          THEN close("underwater-cut")
        ELSE IF elapsed >= maxTradeSeconds
          THEN close(IF netPnl >= 0 THEN "timeout-green" ELSE "timeout-red")
        ELSE [shouldClose |-> FALSE, reason |-> "", exitPrice |-> 0]

\* updatePosition with the timeout rung left out
updatePosition_noTimeout(position, currentPrice, t) ==
    LET elapsed == t - position.entryTime
        netPnl  == NetPnl(position, currentPrice)
        close(reason) ==
            [shouldClose |-> TRUE, reason |-> reason, exitPrice |-> currentPrice]
    IN  IF position.side = "Long" /\ currentPrice * 10000 <= position.stopLoss
          THEN close("stop-loss")
        ELSE IF position.side = "Short" /\ currentPrice * 10000 >= position.stopLoss
          THEN close("stop-loss")
        ELSE IF netPnl >= position.maxProfitTarget
          THEN close("max-profit")
        ELSE IF netPnl >= position.minProfitTarget
          THEN close("take-profit")
        ELSE IF elapsed >= quickExitSeconds /\ netPnl >= quickGrabDollars
          THEN close("quick-profit")
        ELSE IF elapsed >= breakevenSeconds /\ netPnl >= 0
          THEN close("breakeven-exit")
        ELSE IF elapsed >= underwaterCutSeconds /\ netPnl < underwaterMinLoss
          THEN close("underwater-cut")
        ELSE [shouldClose |-> FALSE, reason |-> "", exitPrice |-> 0]

\* updatePosition honouring the stop only while the position is at a loss
updatePosition_stopIfLosing(position, currentPrice, t) ==
    LET netPnl == NetPnl(position, currentPrice)
        held   == [position EXCEPT
                     !.stopLoss = IF position.side = "Long"
                                  THEN 0 ELSE 10000 * (currentPrice + 1)]
    IN  IF netPnl < 0
        THEN updatePosition_targetsFirst(position, currentPrice, t)
        ELSE updatePosition_targetsFirst(held, currentPrice, t)

updatePosition(position, currentPrice, t) ==
    LET elapsed == t - position.entryTime
        netPnl  == NetPnl(position, currentPrice)
        close(reason) ==
            [shouldClose |-> TRUE, reason |-> reason, exitPrice |-> currentPrice]
    IN  IF position.side = "Long" /\ currentPrice * 10000 <= position.stopLoss
          THEN close("stop-loss")
        ELSE IF position.side = "Short" /\ currentPrice * 10000 >= position.stopLoss
          THEN close("stop-loss")
        ELSE IF netPnl >= position.maxProfitTarget
          THEN close("max-profit")
        ELSE IF netPnl >= position.minProfitTarget
          THEN close("take-profit")
        ELSE IF elapsed >= quickExitSeconds /\ netPnl >= quickGrabDollars
          THEN close("quick-profit")
        ELSE IF elapsed >= breakevenSeconds /\ netPnl >= 0
          THEN close("breakeven-exit")
        ELSE IF elapsed >= underwaterCutSeconds /\ netPnl < underwaterMinLoss
          THEN close("underwater-cut")
        ELSE IF elapsed >= maxTradeSeconds
          THEN close(IF netPnl >= 0 THEN "timeout-green" ELSE "timeout-red")
        ELSE [shouldClose |-> FALSE, reason |-> "", exitPrice |-> 0]

\* closePosition settling at the entry price whatever the exit price is
closePosition_atEntry(position, exitPrice, reason, t) ==
    LET posSize  == position.collateral * position.leverage
        fees     == calcFees(posSize)
    IN  [position EXCEPT !.status    = "closed",
                         !.exitPrice = exitPrice,
                         !.exitTime  = t,
                         !.pnl       = 0 - fees,
                         !.fees      = fees,
                         !.grossPnl  = 0,
                         !.reason    = reason]

\* closePosition computes grossPnlPct, grossPnl and netPnl itself (149-154)
closePosition(position, exitPrice, reason, t) ==
    LET posSize  == position.collateral * position.leverage
        fees     == calcFees(posSize)
        move     == IF position.side = "Long"
                    THEN exitPrice - position.entryPrice
                    ELSE position.entryPrice - exitPrice
        grossPnl == (move * posSize) \div position.entryPrice
    IN  [position EXCEPT !.status    = "closed",
                         !.exitPrice = exitPrice,
                         !.exitTime  = t,
                         !.pnl       = grossPnl - fees,
                         !.fees      = fees,
                         !.grossPnl  = grossPnl,
                         !.reason    = reason]

(***************************************************************************)
(* State                                                                   *)
(***************************************************************************)
VARIABLES
    ledger,     \* Ledger.state, the in-memory LedgerState
    file,       \* content of ./data/ledger.json
    now,        \* Date.now()
    clock,      \* number of clock advances so far
    gate,       \* what the last canOpenPosition call returned
    closes,     \* number of Ledger.closePosition calls a caller has made
    token,      \* GITHUB_TOKEN is set
    sha,        \* GitHubSync.sha, the cached version of the remote file
    remote,     \* data/ledger.json on the remote branch
    push,       \* the pushLedger call in progress, and what it did
    faults,     \* failed requests and writes by other writers so far
    pc,         \* where the scan loop stands
    tick,       \* the locals of the scan in progress
    lastSignalTime,
    lastGitHubSync,
    probe,      \* the arguments of the call under test (LadderSpec, GateSpec)
    verdict,    \* what the last updatePosition call returned (LadderSpec)
    dataDir,    \* the directory ./data exists
    isRunning,  \* server.ts: let isRunning = true
    final       \* the pushLedger call of a signal handler

ledgerVars == <<ledger, file, gate, closes>>
timeVars == <<now, clock>>
syncVars == <<token, sha, remote, push, faults>>
loopVars == <<pc, tick, lastSignalTime, lastGitHubSync>>
probeVars == <<probe, verdict>>
procVars == <<dataDir, isRunning, final>>
vars == <<ledger, file, now, clock, gate, closes, token, sha, remote, push, faults,
          pc, tick, lastSignalTime, lastGitHubSync, probe, verdict,
          dataDir, isRunning, final>>

(***************************************************************************)
(* ledger.ts                                                               *)
(***************************************************************************)
\* new Ledger(): the defaults, at time t
DefaultLedger(t) ==
    [ balance           |-> initialBalance,
      initialBalance    |-> initialBalance,
      dailyStartBalance |-> initialBalance,
      dailyPnl          |-> 0,
      consecutiveLosses |-> 0,
      positions         |-> << >>,
      lastReset         |-> t,
      tradesThisHour    |-> 0,
      lastHourReset     |-> t,
      pausedUntil       |-> 0 ]          \* 0: undefined

RECURSIVE SumSeq(_)
SumSeq(s) == IF s = << >> THEN 0 ELSE Head(s) + SumSeq(Tail(s))

openPositions(l) ==
    SelectSeq(l.positions, LAMBDA p : p.status \in {"open", "recovery"})

closedPositions(l) == SelectSeq(l.positions, LAMBDA p : p.status = "closed")

\* availableBalance reducing over all positions, the filter on status left out
availableBalance_allPositions(l) ==
    l.balance - SumSeq([i \in 1..Len(l.positions) |-> l.positions[i].collateral])

availableBalance(l) ==
    LET open == openPositions(l)
    IN  l.balance - SumSeq([i \in 1..Len(open) |-> open[i].collateral])

NoGate == [allowed |-> FALSE, reason |-> "none"]

\* canOpenPosition with the daily loss check ahead of the position count
canOpenPosition_lossFirst(l, t) ==
    IF l.pausedUntil # 0 /\ t < l.pausedUntil
      THEN [allowed |-> FALSE, reason |-> "paused", state |-> l]
    ELSE IF Abs(l.dailyPnl) >= maxDailyLossDollars
      THEN [allowed |-> FALSE, reason |-> "daily-loss", state |-> l]
    ELSE IF Len(openPositions(l)) >= maxPositions
      THEN [allowed |-> FALSE, reason |-> "max-positions", state |-> l]
    ELSE
      LET l2 == IF t - l.lastHourReset > HourSeconds
                THEN [l EXCEPT !.tradesThisHour = 0, !.lastHourReset = t]
                ELSE l
      IN  IF l2.tradesThisHour >= maxTradesPerHour
            THEN [allowed |-> FALSE, reason |-> "trades-per-hour", state |-> l2]
          ELSE IF availableBalance(l2) < riskPerTrade
            THEN [allowed |-> FALSE, reason |-> "insufficient-balance", state |-> l2]
          ELSE [allowed |-> TRUE, reason |-> "", state |-> l2]

\* canOpenPosition resetting the hourly counter before the first check
canOpenPosition_resetFirst(l, t) ==
    LET l2 == IF t - l.lastHourReset > HourSeconds
              THEN [l EXCEPT !.tradesThisHour = 0, !.lastHourReset = t]
              ELSE l
    IN  IF l2.pausedUntil # 0 /\ t < l2.pausedUntil
          THEN [allowed |-> FALSE, reason |-> "paused", state |-> l2]
        ELSE IF Len(openPositions(l2)) >= maxPositions
          THEN [allowed |-> FALSE, reason |-> "max-positions", state |-> l2]
        ELSE IF Abs(l2.dailyPnl) >= maxDailyLossDollars
          THEN [allowed |-> FALSE, reason |-> "daily-loss", state |-> l2]
        ELSE IF l2.tradesThisHour >= maxTradesPerHour
          THEN [allowed |-> FALSE, reason |-> "trades-per-hour", state |-> l2]
        ELSE IF availableBalance(l2) < riskPerTrade
          THEN [allowed |-> FALSE, reason |-> "insufficient-balance", state |-> l2]
        ELSE [allowed |-> TRUE, reason |-> "", state |-> l2]

\* canOpenPosition without the check of the open positions
canOpenPosition_noPositionCheck(l, t) ==
    IF l.pausedUntil # 0 /\ t < l.pausedUntil
      THEN [allowed |-> FALSE, reason |-> "paused", state |-> l]
    ELSE IF Abs(l.dailyPnl) >= maxDailyLossDollars
      THEN [allowed |-> FALSE, reason |-> "daily-loss", state |-> l]
    ELSE
      LET l2 == IF t - l.lastHourReset > HourSeconds
                THEN [l EXCEPT !.tradesThisHour = 0, !.lastHourReset = t]
                ELSE l
      IN  IF l2.tradesThisHour >= maxTradesPerHour
            THEN [allowed |-> FALSE, reason |-> "trades-per-hour", state |-> l2]
          ELSE IF availableBalance(l2) < riskPerTrade
            THEN [allowed |-> FALSE, reason |-> "insufficient-balance", state |-> l2]
          ELSE [allowed |-> TRUE, reason |-> "", state |-> l2]

\* The result of the call and the state it leaves: the hourly counter is
\* reset on the way to the fourth check.
canOpenPosition(l, t) ==
    IF l.pausedUntil # 0 /\ t < l.pausedUntil
      THEN [allowed |-> FALSE, reason |-> "paused", state |-> l]
    ELSE IF Len(openPositions(l)) >= maxPositions
      THEN [allowed |-> FALSE, reason |-> "max-positions", state |-> l]
    ELSE IF Abs(l.dailyPnl) >= maxDailyLossDollars
      THEN [allowed |-> FALSE, reason |-> "daily-loss", state |-> l]
    ELSE
      LET l2 == IF t - l.lastHourReset > HourSeconds
                THEN [l EXCEPT !.tradesThisHour = 0, !.lastHourReset = t]
                ELSE l
      IN  IF l2.tradesThisHour >= maxTradesPerHour
            THEN [allowed |-> FALSE, reason |-> "trades-per-hour", state |-> l2]
          ELSE IF availableBalance(l2) < riskPerTrade
            THEN [allowed |-> FALSE, reason |-> "insufficient-balance", state |-> l2]
          ELSE [allowed |-> TRUE, reason |-> "", state |-> l2]

\* Ledger.openPosition starting a fresh loss streak with every entry
Ledger_openPosition_resetLosses(l, position) ==
    [l EXCEPT !.positions         = Append(@, position),
              !.tradesThisHour    = @ + 1,
              !.balance           = @ - position.collateral,
              !.consecutiveLosses = 0]

\* Ledger.openPosition without tradesThisHour++
Ledger_openPosition_uncounted(l, position) ==
    [l EXCEPT !.positions = Append(@, position),
              !.balance   = @ - position.collateral]

Ledger_openPosition(l, position) ==
    [l EXCEPT !.positions      = Append(@, position),
              !.tradesThisHour = @ + 1,
              !.balance        = @ - position.collateral]

\* findIndex: the first index holding the id, 0 when there is none
FindIndex(l, positionId) ==
    LET hits == {i \in 1..Len(l.positions) : l.positions[i].id = positionId}
    IN  IF hits = {} THEN 0 ELSE CHOOSE i \in hits : \A j \in hits : i <= j

\* Ledger.closePosition with "* 60 * 1000" left out: a pause of 30 ms
Ledger_closePosition_shortPause(l, positionId, exitPrice, reason, t) ==
    LET idx == FindIndex(l, positionId)
    IN  IF idx = 0 THEN l
        ELSE
          LET closed == closePosition(l.positions[idx], exitPrice, reason, t)
              losses == l.consecutiveLosses + 1
          IN  [l EXCEPT
                 !.positions         = [@ EXCEPT ![idx] = closed],
                 !.balance           = @ + closed.collateral + closed.pnl,
                 !.dailyPnl          = @ + closed.pnl,
                 !.consecutiveLosses = IF closed.pnl < 0 THEN losses ELSE 0,
                 !.pausedUntil       =
                     IF closed.pnl < 0 /\ losses >= maxConsecutiveLosses
                     THEN t
                     ELSE @]

\* Ledger.closePosition counting a close at exactly zero net pnl as a loss
Ledger_closePosition_lossOnZero(l, positionId, exitPrice, reason, t) ==
    LET idx == FindIndex(l, positionId)
    IN  IF idx = 0 THEN l
        ELSE
          LET closed == closePosition(l.positions[idx], exitPrice, reason, t)
              losses == l.consecutiveLosses + 1
          IN  [l EXCEPT
                 !.positions         = [@ EXCEPT ![idx] = closed],
                 !.balance           = @ + closed.collateral + closed.pnl,
                 !.dailyPnl          = @ + closed.pnl,
                 !.consecutiveLosses = IF closed.pnl <= 0 THEN losses ELSE 0,
                 !.pausedUntil       =
                     IF closed.pnl <= 0 /\ losses >= maxConsecutiveLosses
                     THEN t + pauseAfterLossesMinutes * 60
                     ELSE @]

\* Ledger.closePosition moving the closed position to the end of the list
Ledger_closePosition_moveLast(l, positionId, exitPrice, reason, t) ==
    LET idx == FindIndex(l, positionId)
    IN  IF idx = 0 THEN l
        ELSE
          LET closed == closePosition(l.positions[idx], exitPrice, reason, t)
              losses == l.consecutiveLosses + 1
          IN  [l EXCEPT
                 !.positions         =
                     Append(SubSeq(@, 1, idx - 1) \o SubSeq(@, idx + 1, Len(@)),
                            closed),
                 !.balance           = @ + closed.collateral + closed.pnl,
                 !.dailyPnl          = @ + closed.pnl,
                 !.consecutiveLosses = IF closed.pnl < 0 THEN losses ELSE 0,
                 !.pausedUntil       =
                     IF closed.pnl < 0 /\ losses >= maxConsecutiveLosses
                     THEN t + pauseAfterLossesMinutes * 60
                     ELSE @]

Ledger_closePosition(l, positionId, exitPrice, reason, t) ==
    LET idx == FindIndex(l, positionId)
    IN  IF idx = 0 THEN l
        ELSE
          LET closed == closePosition(l.positions[idx], exitPrice, reason, t)
              losses == l.consecutiveLosses + 1
          IN  [l EXCEPT
                 !.positions         = [@ EXCEPT ![idx] = closed],
                 !.balance           = @ + closed.collateral + closed.pnl,
                 !.dailyPnl          = @ + closed.pnl,
                 !.consecutiveLosses = IF closed.pnl < 0 THEN losses ELSE 0,
                 !.pausedUntil       =
                     IF closed.pnl < 0 /\ losses >= maxConsecutiveLosses
                     THEN t + pauseAfterLossesMinutes * 60
                     ELSE @]

\* resetDaily starting a new hour of trades as well
resetDaily_alsoHourly(l, t) ==
    [l EXCEPT !.dailyStartBalance = l.balance,
              !.dailyPnl          = 0,
              !.consecutiveLosses = 0,
              !.lastReset         = t,
              !.tradesThisHour    = 0,
              !.lastHourReset     = t]

resetDaily(l, t) ==
    [l EXCEPT !.dailyStartBalance = l.balance,
              !.dailyPnl          = 0,
              !.consecutiveLosses = 0,
              !.lastReset         = t]

(***************************************************************************)
(* github-sync.ts                                                          *)
(*                                                                         *)
(* The version of the remote file is its git blob sha, a hash of its       *)
(* content: the model takes the content itself as the sha.  NoFile is the  *)
(* absent file and the empty sha "".                                       *)
(***************************************************************************)
NoFile == [absent |-> TRUE]

IdlePush ==
    [ pc        |-> "idle",     \* idle, read, fetch, put, refetch, done
      attempt   |-> 0,
      content   |-> NoFile,     \* what readFile returned
      puts      |-> 0,          \* PUT requests sent
      writes    |-> 0,          \* PUT requests the remote applied
      conflicts |-> 0,          \* 409 responses
      refetches |-> 0,          \* fetchRemoteSha calls after a 409
      empty     |-> FALSE,      \* the re-fetch after the 409 returned ""
      result    |-> "none" ]    \* none, true, false

\* fetchRemoteSha: data.sha when the GET is ok, "" when it is not or throws
fetchRemoteSha(reachable) == IF reachable THEN remote ELSE NoFile

\* The response to PUT {content, sha?} and the remote file it leaves.
PutStatus(bodySha) ==
    IF remote = NoFile
      THEN IF bodySha = NoFile THEN 201 ELSE 422
    ELSE IF bodySha = NoFile THEN 422
    ELSE IF bodySha = remote THEN 200
    ELSE 409

\* pushLedger() up to its first await: the token check
PushBegin ==
    IF token
    THEN [IdlePush EXCEPT !.pc = "read"]
    ELSE [IdlePush EXCEPT !.pc = "done", !.result = "false"]

\* A request reaches the remote, or is one more that fails.
Network(reachable) ==
    /\ ~reachable => faults < MaxFaults
    /\ faults' = IF reachable THEN faults ELSE faults + 1

\* The steps of one pushLedger call, p its locals before the step and q
\* after it.  Two calls can be under way at a time, the loop's and a signal
\* handler's; both work on the one GitHubSync.sha.  No step writes the
\* ledger or its file.
\* const content = await readFile(LOCAL_LEDGER); if (!this.sha) ...
ReadStep(p, q) ==
    /\ p.pc = "read"
    /\ q = IF file = NoFile
           THEN [p EXCEPT !.pc = "done", !.result = "false"]
           ELSE [p EXCEPT !.content = file,
                          !.pc = IF sha = NoFile THEN "fetch" ELSE "put"]
    /\ UNCHANGED <<ledger, file, token, sha, remote, faults>>

\* this.sha = await this.fetchRemoteSha()    (the cached sha is empty)
FetchStep(p, q) ==
    /\ p.pc = "fetch"
    /\ \E reachable \in BOOLEAN :
          Network(reachable) /\ sha' = fetchRemoteSha(reachable)
    /\ q = [p EXCEPT !.pc = "put",
                     !.refetches = @ + (IF p.conflicts > 0 THEN 1 ELSE 0)]
    /\ UNCHANGED <<ledger, file, token, remote>>

\* const resp = await fetch(..., {method: "PUT"}) and what follows it
PutStep(p, q) ==
    /\ p.pc = "put"
    /\ \/ \* the request throws before the remote applies it
          /\ Network(FALSE)
          /\ q = [p EXCEPT !.puts = @ + 1, !.pc = "done", !.result = "false"]
          /\ UNCHANGED <<sha, remote>>
       \/ \* the remote applies it and the response is lost
          /\ Network(FALSE)
          /\ PutStatus(sha) \in {200, 201}
          /\ remote' = p.content
          /\ q = [p EXCEPT !.puts = @ + 1, !.writes = @ + 1,
                           !.pc = "done", !.result = "false"]
          /\ UNCHANGED sha
       \/ \* 200 / 201: this.sha = result.content.sha
          /\ Network(TRUE)
          /\ PutStatus(sha) \in {200, 201}
          /\ remote' = p.content
          /\ sha' = p.content
          /\ q = [p EXCEPT !.puts = @ + 1, !.writes = @ + 1,
                           !.pc = "done", !.result = "true"]
       \/ \* 409 on the first attempt: re-fetch and retry
          /\ Network(TRUE)
          /\ PutStatus(sha) = 409
          /\ p.attempt = 0
          /\ q = [p EXCEPT !.puts = @ + 1, !.conflicts = @ + 1, !.pc = "refetch"]
          /\ UNCHANGED <<sha, remote>>
       \/ \* 409 on the retry, or another failure status
          /\ Network(TRUE)
          /\ \/ PutStatus(sha) = 409 /\ p.attempt # 0
             \/ PutStatus(sha) = 422
          /\ q = [p EXCEPT !.puts = @ + 1,
                           !.conflicts = @ + (IF PutStatus(sha) = 409 THEN 1 ELSE 0),
                           !.pc = "done", !.result = "false"]
          /\ UNCHANGED <<sha, remote>>
    /\ UNCHANGED <<ledger, file, token>>

\* this.sha = await this.fetchRemoteSha(); continue
RefetchStep(p, q) ==
    /\ p.pc = "refetch"
    /\ \E reachable \in BOOLEAN :
          /\ Network(reachable)
          /\ sha' = fetchRemoteSha(reachable)
          /\ q = [p EXCEPT !.refetches = @ + 1, !.attempt = 1, !.pc = "read",
                           !.empty = (fetchRemoteSha(reachable) = NoFile)]
    /\ UNCHANGED <<ledger, file, token, remote>>

\* pushLedger sending the file as read, btoa(content) left out: the remote
\* decodes the body and stores something else
PushRead_unencoded ==
    /\ push.pc = "read"
    /\ push' = IF file = NoFile
               THEN [push EXCEPT !.pc = "done", !.result = "false"]
               ELSE [push EXCEPT !.content = [garbled |-> file],
                                 !.pc = IF sha = NoFile THEN "fetch" ELSE "put"]
    /\ UNCHANGED <<ledger, file, token, sha, remote, faults>>

PushRead == ReadStep(push, push')

PushFetch == FetchStep(push, push')

\* pushLedger retrying on every 409: "&& attempt === 0" left out and the
\* loop unbounded
PushPut_retryAlways ==
    /\ push.pc = "put"
    /\ \/ /\ Network(FALSE)
          /\ push' = [push EXCEPT !.puts = @ + 1, !.pc = "done", !.result = "false"]
          /\ UNCHANGED <<sha, remote>>
       \/ /\ Network(FALSE)
          /\ PutStatus(sha) \in {200, 201}
          /\ remote' = push.content
          /\ push' = [push EXCEPT !.puts = @ + 1, !.writes = @ + 1,
                                  !.pc = "done", !.result = "false"]
          /\ UNCHANGED sha
       \/ /\ Network(TRUE)
          /\ PutStatus(sha) \in {200, 201}
          /\ remote' = push.content
          /\ sha' = push.content
          /\ push' = [push EXCEPT !.puts = @ + 1, !.writes = @ + 1,
                                  !.pc = "done", !.result = "true"]
       \/ /\ Network(TRUE)
          /\ PutStatus(sha) = 409
          /\ push' = [push EXCEPT !.puts = @ + 1, !.conflicts = @ + 1,
                                  !.pc = "refetch"]
          /\ UNCHANGED <<sha, remote>>
       \/ /\ Network(TRUE)
          /\ PutStatus(sha) = 422
          /\ push' = [push EXCEPT !.puts = @ + 1, !.pc = "done", !.result = "false"]
          /\ UNCHANGED <<sha, remote>>
    /\ UNCHANGED <<ledger, file, token>>

\* pushLedger giving up on the second conflict by taking over the remote
\* ledger, as pullLedger does: writeFile(LOCAL_LEDGER, remote content)
PushPut_takeRemote ==
    /\ push.pc = "put"
    /\ Network(TRUE)
    /\ IF PutStatus(sha) \in {200, 201}
       THEN /\ remote' = push.content
            /\ sha' = push.content
            /\ push' = [push EXCEPT !.puts = @ + 1, !.writes = @ + 1,
                                    !.pc = "done", !.result = "true"]
            /\ UNCHANGED <<ledger, file>>
       ELSE IF PutStatus(sha) = 409 /\ push.attempt = 0
       THEN /\ push' = [push EXCEPT !.puts = @ + 1, !.conflicts = @ + 1,
                                    !.pc = "refetch"]
            /\ UNCHANGED <<ledger, file, sha, remote>>
       ELSE /\ push' = [push EXCEPT !.puts = @ + 1,
                          !.conflicts = @ + (IF PutStatus(sha) = 409 THEN 1 ELSE 0),
                          !.pc = "done", !.result = "false"]
            /\ file' = IF remote = NoFile THEN file ELSE remote
            /\ UNCHANGED <<ledger, sha, remote>>
    /\ UNCHANGED token

\* pushLedger leaving the cached sha as it was after a write:
\* "this.sha = result.content.sha" left out
PushPut_keepSha ==
    /\ push.pc = "put"
    /\ \/ /\ Network(FALSE)
          /\ push' = [push EXCEPT !.puts = @ + 1, !.pc = "done", !.result = "false"]
          /\ UNCHANGED <<sha, remote>>
       \/ /\ Network(FALSE)
          /\ PutStatus(sha) \in {200, 201}
          /\ remote' = push.content
          /\ push' = [push EXCEPT !.puts = @ + 1, !.writes = @ + 1,
                                  !.pc = "done", !.result = "false"]
          /\ UNCHANGED sha
       \/ /\ Network(TRUE)
          /\ PutStatus(sha) \in {200, 201}
          /\ remote' = push.content
          /\ push' = [push EXCEPT !.puts = @ + 1, !.writes = @ + 1,
                                  !.pc = "done", !.result = "true"]
          /\ UNCHANGED sha
       \/ /\ Network(TRUE)
          /\ PutStatus(sha) = 409
          /\ push.attempt = 0
          /\ push' = [push EXCEPT !.puts = @ + 1, !.conflicts = @ + 1,
                                  !.pc = "refetch"]
          /\ UNCHANGED <<sha, remote>>
       \/ /\ Network(TRUE)
          /\ \/ PutStatus(sha) = 409 /\ push.attempt # 0
             \/ PutStatus(sha) = 422
          /\ push' = [push EXCEPT !.puts = @ + 1,
                          !.conflicts = @ + (IF PutStatus(sha) = 409 THEN 1 ELSE 0),
                          !.pc = "done", !.result = "false"]
          /\ UNCHANGED <<sha, remote>>
    /\ UNCHANGED <<ledger, file, token>>

PushPut == PutStep(push, push')

\* pushLedger retrying a conflict with the sha it already had:
\* "this.sha = await this.fetchRemoteSha()" left out of the 409 branch
PushRefetch_keepSha ==
    /\ push.pc = "refetch"
    /\ push' = [push EXCEPT !.refetches = @ + 1, !.attempt = 1, !.pc = "read"]
    /\ UNCHANGED <<ledger, file, token, sha, remote, faults>>

PushRefetch == RefetchStep(push, push')

PushStep == PushRead \/ PushFetch \/ PushPut \/ PushRefetch

\* Another process instance (a redeploy overlap) replaces the remote file.
ForeignLedgers == { [DefaultLedger(0) EXCEPT !.balance = initialBalance + 100] }

OtherWriter ==
    /\ faults < MaxFaults
    /\ faults' = faults + 1
    /\ \E l \in ForeignLedgers : remote' = l
    /\ UNCHANGED <<token, sha, push>>

(***************************************************************************)
(* LedgerSpec: a caller drives Ledger.openPosition and                     *)
(* Ledger.closePosition in any order.                                      *)
(***************************************************************************)
IdSuffixes == {"a"}                 \* the random suffix of a position id
LedgerIdSuffixes == {"a", "b"}
UnknownId == <<0, "a">>

SyncIdle ==
    /\ token = TRUE
    /\ sha = NoFile
    /\ remote = NoFile
    /\ push = IdlePush
    /\ faults = 0

NoTick ==
    [ price          |-> 0,
      overrides      |-> [tradingEnabled |-> TRUE, preferredSide |-> "none"],
      openBefore     |-> << >>,     \* what is left of [...ledger.openPositions]
      positionClosed |-> FALSE,
      opened         |-> FALSE ]    \* this scan has opened a position

NoUpdate == [shouldClose |-> FALSE, reason |-> "none", exitPrice |-> 0]

ProbeIdle ==
    /\ probe = NoFile
    /\ verdict = NoUpdate

\* a process in its loop: ./data is there (Dockerfile: RUN mkdir -p data),
\* no signal has arrived
ProcIdle ==
    /\ dataDir = TRUE
    /\ isRunning = TRUE
    /\ final = IdlePush

LoopIdle ==
    /\ pc = "off"
    /\ tick = NoTick
    /\ lastSignalTime = 0
    /\ lastGitHubSync = 0
    /\ ProbeIdle
    /\ ProcIdle

LedgerInit ==
    /\ now = StartTime
    /\ clock = 0
    /\ ledger = DefaultLedger(StartTime)
    /\ file = DefaultLedger(StartTime)          \* load() saves the defaults
    /\ gate = NoGate
    /\ closes = 0
    /\ SyncIdle
    /\ LoopIdle

\* await ledger.openPosition(createPosition(side, price, collateral))
CallOpen ==
    /\ Len(ledger.positions) < MaxOpens
    /\ \E side \in LedgerSides, price \in LedgerEntries, r \in LedgerIdSuffixes :
          ledger' = Ledger_openPosition(ledger,
                      createPosition(side, price, positionSizeDollars, now, r))
    /\ file' = ledger'
    /\ gate' = NoGate
    /\ UNCHANGED <<closes, timeVars, syncVars, loopVars, probeVars, procVars>>

\* await ledger.closePosition(id, exitPrice, reason)
CallClose ==
    /\ closes < MaxCloses
    /\ closes' = closes + 1
    /\ \E id \in {ledger.positions[i].id : i \in 1..Len(ledger.positions)}
                   \cup {UnknownId},
          price \in LedgerPrices :
          /\ ledger' = Ledger_closePosition(ledger, id, price, "manual", now)
          /\ file' = IF FindIndex(ledger, id) = 0 THEN file ELSE ledger'
    /\ gate' = NoGate
    /\ UNCHANGED <<timeVars, syncVars, loopVars, probeVars, procVars>>

\* ledger.canOpenPosition(); gate keeps the answer until the next call
CallCanOpen ==
    /\ gate = NoGate
    /\ LET r == canOpenPosition(ledger, now)
       IN  /\ gate' = [allowed |-> r.allowed, reason |-> r.reason]
           /\ ledger' = r.state
    /\ UNCHANGED <<file, closes, timeVars, syncVars, loopVars, probeVars, procVars>>

Advance ==
    /\ clock < MaxAdvances
    /\ \E d \in LedgerSteps : now' = now + d
    /\ clock' = clock + 1
    /\ gate' = NoGate
    /\ UNCHANGED <<ledger, file, closes, syncVars, loopVars, probeVars, procVars>>

LedgerNext == CallOpen \/ CallClose \/ CallCanOpen \/ Advance

LedgerSpec == LedgerInit /\ [][LedgerNext]_vars

(***************************************************************************)
(* PushSpec: pushLedger calls against a remote file that other writers     *)
(* also replace.  Between calls the local file is saved anew.              *)
(***************************************************************************)
SampleLedgers ==
    LET l0 == DefaultLedger(StartTime)
        l1 == Ledger_openPosition(l0,
                createPosition("Long", 70000, positionSizeDollars, StartTime, "a"))
        l2 == Ledger_closePosition(l1, <<StartTime, "a">>, 69890, "stop-loss",
                                   StartTime + 30)
    IN  {l0, l1, l2}

PushInit ==
    /\ now = StartTime
    /\ clock = 0
    /\ \E l \in SampleLedgers : ledger = l /\ file = l
    /\ gate = NoGate
    /\ closes = 0
    /\ token \in BOOLEAN
    /\ remote \in {NoFile} \cup SampleLedgers
    /\ sha \in {NoFile} \cup SampleLedgers    \* the version last pulled or pushed
    /\ push = IdlePush
    /\ faults = 0
    /\ LoopIdle

PushCall ==
    /\ push.pc \in {"idle", "done"}
    /\ clock < MaxPushes
    /\ clock' = clock + 1
    /\ push' = PushBegin
    /\ UNCHANGED <<ledgerVars, now, token, sha, remote, faults, loopVars, probeVars, procVars>>

PushRun == PushStep /\ UNCHANGED <<gate, closes, timeVars, loopVars, probeVars, procVars>>

PushForeign == OtherWriter /\ UNCHANGED <<ledgerVars, timeVars, loopVars, probeVars, procVars>>

\* ledger.save() of a changed ledger, between two pushes
PushSave ==
    /\ push.pc \in {"idle", "done"}
    /\ \E l \in SampleLedgers : l # ledger /\ ledger' = l /\ file' = l
    /\ UNCHANGED <<gate, closes, timeVars, syncVars, loopVars, probeVars, procVars>>

PushNext == PushCall \/ PushRun \/ PushForeign \/ PushSave

PushSpec == PushInit /\ [][PushNext]_vars

(***************************************************************************)
(* ReconcileSpec: pushes without end.  A push is triggered again and again *)
(* (a mutation, or the periodic timer of the main loop), each call runs to *)
(* its return, and the requests that fail and the writes of other writers  *)
(* are MaxFaults in all: from some point on the remote is reachable and    *)
(* written by this process alone.  The remote file, once there, is         *)
(* replaced by its writers and never deleted, so a cached sha is a version *)
(* the remote file had.  probe keeps how the call before ended.            *)
(***************************************************************************)
ReconcileInit ==
    /\ now = StartTime
    /\ clock = 0
    /\ \E l \in SampleLedgers : ledger = l /\ file = l
    /\ gate = NoGate
    /\ closes = 0
    /\ token \in BOOLEAN
    /\ remote \in {NoFile} \cup SampleLedgers
    /\ sha \in {NoFile} \cup SampleLedgers
    /\ remote = NoFile => sha = NoFile
    /\ push = IdlePush
    /\ faults = 0
    /\ pc = "off"
    /\ tick = NoTick
    /\ lastSignalTime = 0
    /\ lastGitHubSync = 0
    /\ probe = [result |-> "none", conflicts |-> 0]
    /\ verdict = NoUpdate
    /\ ProcIdle

\* the next trigger: await ghSync.pushLedger() after a mutation or when
\* GITHUB_SYNC_INTERVAL_MS has passed
ReconcileCall ==
    /\ push.pc \in {"idle", "done"}
    /\ probe' = [result |-> push.result, conflicts |-> push.conflicts]
    /\ push' = PushBegin
    /\ UNCHANGED <<ledgerVars, timeVars, token, sha, remote, faults, loopVars,
                   verdict, procVars>>

ReconcileNext == ReconcileCall \/ PushRun \/ PushForeign \/ PushSave

\* The main loop awaits every pushLedger call, whose requests each return
\* or throw, and goes round for as long as the process runs.
ReconcileSpec ==
    /\ ReconcileInit
    /\ [][ReconcileNext]_vars
    /\ WF_vars(ReconcileCall)
    /\ WF_vars(PushRun)

(***************************************************************************)
(* VersionSpec: one process pushing MaxPushes times, the file saved in     *)
(* between, beside another writer.  The sha the process starts with is ""  *)
(* or the data.sha pullLedger took at start-up, a version the remote file  *)
(* had.  probe keeps how the push before the current one and the latest    *)
(* push returned, and whether another writer has written since the latest  *)
(* return.                                                                 *)
(***************************************************************************)
VersionInit ==
    /\ now = StartTime
    /\ clock = 0
    /\ \E l \in SampleLedgers : ledger = l /\ file = l
    /\ gate = NoGate
    /\ closes = 0
    /\ token \in BOOLEAN
    /\ remote \in {NoFile} \cup SampleLedgers
    /\ sha \in {NoFile} \cup SampleLedgers
    /\ remote = NoFile => sha = NoFile
    /\ push = IdlePush
    /\ faults = 0
    /\ pc = "off"
    /\ tick = NoTick
    /\ lastSignalTime = 0
    /\ lastGitHubSync = 0
    /\ probe = [prev |-> "none", last |-> "none", foreign |-> FALSE]
    /\ verdict = NoUpdate
    /\ ProcIdle

\* await ghSync.pushLedger()
VersionCall ==
    /\ push.pc \in {"idle", "done"}
    /\ clock < MaxPushes
    /\ clock' = clock + 1
    /\ push' = PushBegin
    /\ probe' = IF PushBegin.pc = "done"
                THEN [prev |-> probe.last, last |-> PushBegin.result,
                      foreign |-> FALSE]
                ELSE [probe EXCEPT !.prev = probe.last]
    /\ UNCHANGED <<ledgerVars, now, token, sha, remote, faults, loopVars,
                   verdict, procVars>>

\* a step of the call; its return is noted in probe
VersionRun ==
    /\ PushStep
    /\ probe' = IF push'.pc = "done"
                THEN [probe EXCEPT !.last = push'.result, !.foreign = FALSE]
                ELSE probe
    /\ UNCHANGED <<gate, closes, timeVars, loopVars, verdict, procVars>>

VersionForeign ==
    /\ OtherWriter
    /\ probe' = [probe EXCEPT !.foreign = TRUE]
    /\ UNCHANGED <<ledgerVars, timeVars, loopVars, verdict, procVars>>

VersionNext == VersionCall \/ VersionRun \/ VersionForeign \/ PushSave

VersionSpec == VersionInit /\ [][VersionNext]_vars

(***************************************************************************)
(* LadderSpec: updatePosition on positions, prices and times drawn from    *)
(* bounded sets.  A Position is what createPosition returns, or one whose  *)
(* stop was moved to the target level afterwards (updatePosition takes any *)
(* Position the ledger file holds).                                        *)
(***************************************************************************)
LadderPrices == {69890, 70000, 70040, 70060, 70080, 70110, 70250}
LadderElapsed == {0, 29, 30, 89, 90, 119, 120, 149, 150}

LadderPositions ==
    LET made == { createPosition(side, 70000, positionSizeDollars, StartTime, "a") :
                    side \in Sides }
    IN  made \cup { [p EXCEPT !.stopLoss = p.takeProfit] : p \in made }

LadderInit ==
    /\ now = StartTime
    /\ clock = 0
    /\ ledger = DefaultLedger(StartTime)
    /\ file = DefaultLedger(StartTime)
    /\ gate = NoGate
    /\ closes = 0
    /\ SyncIdle
    /\ pc = "off"
    /\ tick = NoTick
    /\ lastSignalTime = 0
    /\ lastGitHubSync = 0
    /\ \E p \in LadderPositions, price \in LadderPrices, e \in LadderElapsed :
         probe = [position |-> p, price |-> price, t |-> p.entryTime + e,
                  closed |-> <<>>]
    /\ verdict = NoUpdate
    /\ ProcIdle

LadderUpdate ==
    /\ verdict = NoUpdate
    /\ verdict' = updatePosition(probe.position, probe.price, probe.t)
    /\ UNCHANGED <<ledgerVars, timeVars, syncVars, loopVars, probe, procVars>>

\* closePosition(position, p, reason) at the price the update was made for:
\* with the update's reason when it decided to close, by hand otherwise.
LadderClose ==
    /\ verdict # NoUpdate
    /\ probe.closed = <<>>
    /\ probe' = [probe EXCEPT !.closed =
                    <<closePosition(probe.position, probe.price,
                                    IF verdict.shouldClose THEN verdict.reason
                                                           ELSE "manual",
                                    probe.t)>>]
    /\ UNCHANGED <<ledgerVars, timeVars, syncVars, loopVars, verdict, procVars>>

\* await ledger.openPosition(position): the position enters an empty ledger
LadderOpen ==
    /\ ledger.positions = << >>
    /\ ledger' = Ledger_openPosition(ledger, probe.position)
    /\ file' = ledger'
    /\ UNCHANGED <<gate, closes, timeVars, syncVars, loopVars, probeVars,
                   procVars>>

\* if (update.shouldClose) await ledger.closePosition(position.id,
\* update.exitPrice, update.reason), for a position of ledger.openPositions
LadderSettle ==
    /\ verdict # NoUpdate
    /\ verdict.shouldClose
    /\ \E i \in 1..Len(ledger.positions) :
         /\ ledger.positions[i].status = "open"
         /\ ledger.positions[i].id = probe.position.id
    /\ ledger' = Ledger_closePosition(ledger, probe.position.id,
                                      verdict.exitPrice, verdict.reason, probe.t)
    /\ file' = ledger'
    /\ UNCHANGED <<gate, closes, timeVars, syncVars, loopVars, probeVars,
                   procVars>>

LadderNext == LadderUpdate \/ LadderClose \/ LadderOpen \/ LadderSettle

LadderSpec == LadderInit /\ [][LadderNext]_vars

(***************************************************************************)
(* CreateSpec: createPosition called on arguments drawn from bounded sets, *)
(* beside a ledger in any of the sample states.  The entry price is a      *)
(* market price, a positive number.                                        *)
(***************************************************************************)
CreatePrices == {1, 69890, 70000, 70250, 100000}
CreateCollaterals == {100, positionSizeDollars}

CreateInit ==
    /\ now = StartTime
    /\ clock = 0
    /\ \E l \in SampleLedgers : ledger = l /\ file = l
    /\ gate = NoGate
    /\ closes = 0
    /\ SyncIdle
    /\ pc = "off"
    /\ tick = NoTick
    /\ lastSignalTime = 0
    /\ lastGitHubSync = 0
    /\ \E side \in Sides, price \in CreatePrices, c \in CreateCollaterals :
         probe = [side |-> side, entryPrice |-> price, collateral |-> c]
    /\ verdict = NoUpdate
    /\ ProcIdle

CreateCall ==
    /\ verdict = NoUpdate
    /\ \E r \in IdSuffixes :
         verdict' = createPosition(probe.side, probe.entryPrice,
                                   probe.collateral, now, r)
    /\ UNCHANGED <<ledgerVars, timeVars, syncVars, loopVars, probe, procVars>>

CreateNext == CreateCall

CreateSpec == CreateInit /\ [][CreateNext]_vars

(***************************************************************************)
(* GateSpec: canOpenPosition and resetDaily on ledger states drawn from    *)
(* bounded sets: load() takes whatever LedgerState the ledger file holds.  *)
(***************************************************************************)
GatePositions ==
    LET p1 == createPosition("Long", 70000, positionSizeDollars, StartTime - 60, "a")
        p2 == createPosition("Short", 70000, positionSizeDollars, StartTime - 30, "a")
        c1 == closePosition(p1, 69890, "stop-loss", StartTime - 30)
    IN  { << >>, <<c1>>, <<p1>>, <<c1, p2>>, <<p1, p2>> }

GateLedgers ==
    { [DefaultLedger(StartTime - 60) EXCEPT
         !.pausedUntil = pu, !.positions = ps, !.dailyPnl = dp,
         !.tradesThisHour = th, !.lastHourReset = hr, !.balance = b] :
      pu \in {0, StartTime - 1, StartTime + 1800},
      ps \in GatePositions,
      dp \in {0, -19999, -20000, 20000},
      th \in {0, maxTradesPerHour - 1, maxTradesPerHour},
      hr \in {StartTime - 60, StartTime - HourSeconds - 1},
      b  \in {initialBalance, riskPerTrade, riskPerTrade - 1} }

GateInit ==
    /\ now = StartTime
    /\ clock = 0
    /\ ledger \in GateLedgers
    /\ file = ledger
    /\ gate = NoGate
    /\ closes = 0
    /\ SyncIdle
    /\ pc = "off"
    /\ tick = NoTick
    /\ lastSignalTime = 0
    /\ lastGitHubSync = 0
    /\ probe = NoFile
    /\ verdict = NoUpdate
    /\ ProcIdle

\* ledger.canOpenPosition(); probe keeps the state it was called in
GateCall ==
    /\ probe = NoFile
    /\ probe' = [ledger |-> ledger, t |-> now, call |-> "canOpenPosition"]
    /\ LET r == canOpenPosition(ledger, now)
       IN  /\ gate' = [allowed |-> r.allowed, reason |-> r.reason]
           /\ ledger' = r.state
    /\ UNCHANGED <<file, closes, timeVars, syncVars, loopVars, verdict, procVars>>

\* ledger.resetDaily()
GateReset ==
    /\ probe = NoFile
    /\ probe' = [ledger |-> ledger, t |-> now, call |-> "resetDaily"]
    /\ ledger' = resetDaily(ledger, now)
    /\ UNCHANGED <<file, gate, closes, timeVars, syncVars, loopVars, verdict, procVars>>

\* ledger.closePosition(id, exitPrice, reason) writing the file whether or
\* not the id was found
GateClose_saveAlways ==
    /\ verdict = NoUpdate
    /\ closes < MaxCloses
    /\ closes' = closes + 1
    /\ \E id \in {ledger.positions[i].id : i \in 1..Len(ledger.positions)}
                   \cup {UnknownId},
          price \in LedgerPrices :
          /\ ledger' = Ledger_closePosition(ledger, id, price, "manual", now)
          /\ file' = ledger'
          /\ verdict' = [call |-> "closePosition", id |-> id, exitPrice |-> price,
                         found |-> FindIndex(ledger, id) # 0]
    /\ UNCHANGED <<gate, timeVars, syncVars, loopVars, probe, procVars>>

\* await ledger.closePosition(id, exitPrice, reason), with the id of a
\* position of the ledger or an id it does not hold, after or before the
\* other calls; verdict keeps the call and whether the id was found
GateClose ==
    /\ verdict = NoUpdate
    /\ closes < MaxCloses
    /\ closes' = closes + 1
    /\ \E id \in {ledger.positions[i].id : i \in 1..Len(ledger.positions)}
                   \cup {UnknownId},
          price \in LedgerPrices :
          /\ ledger' = Ledger_closePosition(ledger, id, price, "manual", now)
          /\ file' = IF FindIndex(ledger, id) = 0 THEN file ELSE ledger'
          /\ verdict' = [call |-> "closePosition", id |-> id, exitPrice |-> price,
                         found |-> FindIndex(ledger, id) # 0]
    /\ UNCHANGED <<gate, timeVars, syncVars, loopVars, probe, procVars>>

GateNext == GateCall \/ GateReset \/ GateClose

GateSpec == GateInit /\ [][GateNext]_vars

(***************************************************************************)
(* server.ts: scan and the loop of main.  The clock moves while the loop   *)
(* sleeps.                                                                 *)
(***************************************************************************)
\* getUTCDate(), with every month taken as 31 days long
UTCDate(t) == ((t \div DaySeconds) % 31) + 1

Overrides ==
    { [tradingEnabled |-> TRUE,  preferredSide |-> "none"],
      [tradingEnabled |-> TRUE,  preferredSide |-> "Long"],
      [tradingEnabled |-> FALSE, preferredSide |-> "none"] }

\* await ghSync.pushLedger(), the scan waiting at `at`
CallPush(at) ==
    /\ pc' = at
    /\ push' = PushBegin
    /\ UNCHANGED <<token, sha, remote, faults>>

\* await Bun.sleep(SCAN_INTERVAL_MS); while (isRunning) scan(...)
Sleep ==
    /\ pc = "sleep"
    /\ isRunning
    /\ clock < MaxClock
    /\ clock' = clock + 1
    /\ \E d \in Steps : now' = now + d
    /\ pc' = "scan"
    /\ UNCHANGED <<ledgerVars, syncVars, tick, lastSignalTime, lastGitHubSync, probeVars, procVars>>

\* the daily reset check
ScanReset ==
    /\ pc = "scan"
    /\ IF UTCDate(now) # UTCDate(ledger.lastReset)
       THEN /\ ledger' = resetDaily(ledger, now)
            /\ file' = ledger'
            /\ CallPush("reset-pushed")
       ELSE /\ pc' = "fetch"
            /\ UNCHANGED <<ledger, file, syncVars>>
    /\ UNCHANGED <<gate, closes, timeVars, tick, lastSignalTime, lastGitHubSync, probeVars, procVars>>

\* scan going on after a failed bar fetch with no price, the throw of
\* getKlines swallowed instead of ending the scan
ScanFetch_goOn ==
    /\ \/ pc = "fetch"
       \/ pc = "reset-pushed" /\ push.pc = "done"
    /\ \/ /\ tick' = [NoTick EXCEPT !.openBefore = openPositions(ledger)]
          /\ pc' = "evaluate"
       \/ /\ \E price \in Prices :
               tick' = [NoTick EXCEPT !.price = price,
                                      !.openBefore = openPositions(ledger)]
          /\ pc' = "evaluate"
    /\ UNCHANGED <<ledgerVars, timeVars, syncVars, lastSignalTime, lastGitHubSync, probeVars, procVars>>

\* getOverrides() and getKlines(): a failed bar fetch ends the scan
ScanFetch ==
    /\ \/ pc = "fetch"
       \/ pc = "reset-pushed" /\ push.pc = "done"
    /\ \/ /\ pc' = "timer"
          /\ UNCHANGED tick
       \/ /\ \E price \in Prices :
               tick' = [NoTick EXCEPT !.price = price,
                                      !.openBefore = openPositions(ledger)]
          /\ pc' = "evaluate"
    /\ UNCHANGED <<ledgerVars, timeVars, syncVars, lastSignalTime, lastGitHubSync, probeVars, procVars>>

\* scan with ledger.closePosition left out of the loop over openBefore
ScanEvaluate_noClose ==
    /\ pc = "evaluate"
    /\ IF tick.openBefore # << >>
       THEN LET position == Head(tick.openBefore)
                update   == updatePosition(position, tick.price, now)
            IN  /\ UNCHANGED <<ledger, file>>
                /\ tick' = [tick EXCEPT
                              !.openBefore = Tail(@),
                              !.positionClosed = @ \/ update.shouldClose]
                /\ UNCHANGED <<pc, syncVars>>
       ELSE /\ IF tick.positionClosed
               THEN CallPush("closed-pushed")
               ELSE pc' = "gate" /\ UNCHANGED syncVars
            /\ UNCHANGED <<ledger, file, tick>>
    /\ UNCHANGED <<gate, closes, timeVars, lastSignalTime, lastGitHubSync, probeVars, procVars>>

\* one turn of `for (const position of openBefore)`, and its end
ScanEvaluate ==
    /\ pc = "evaluate"
    /\ IF tick.openBefore # << >>
       THEN LET position == Head(tick.openBefore)
                update   == updatePosition(position, tick.price, now)
            IN  /\ IF update.shouldClose
                   THEN /\ ledger' = Ledger_closePosition(ledger, position.id,
                                        update.exitPrice, update.reason, now)
                        /\ file' = ledger'
                   ELSE UNCHANGED <<ledger, file>>
                /\ tick' = [tick EXCEPT
                              !.openBefore = Tail(@),
                              !.positionClosed = @ \/ update.shouldClose]
                /\ UNCHANGED <<pc, syncVars>>
       ELSE /\ IF tick.positionClosed
               THEN CallPush("closed-pushed")
               ELSE pc' = "gate" /\ UNCHANGED syncVars
            /\ UNCHANGED <<ledger, file, tick>>
    /\ UNCHANGED <<gate, closes, timeVars, lastSignalTime, lastGitHubSync, probeVars, procVars>>

\* scan with the preferredSide filter left out
ScanGate_anySide ==
    /\ \/ pc = "gate"
       \/ pc = "closed-pushed" /\ push.pc = "done"
    /\ \E o \in Overrides :
         IF ~o.tradingEnabled
         THEN /\ pc' = "timer"
              /\ tick' = [tick EXCEPT !.overrides = o]
              /\ UNCHANGED <<ledger, file, gate, lastSignalTime, syncVars>>
         ELSE
           LET canOpen == canOpenPosition(ledger, now)
           IN  /\ gate' = [allowed |-> canOpen.allowed, reason |-> canOpen.reason]
               /\ \/ /\ ledger' = canOpen.state
                     /\ pc' = "timer"
                     /\ tick' = [tick EXCEPT !.overrides = o]
                     /\ UNCHANGED <<file, lastSignalTime, syncVars>>
                  \/ /\ canOpen.allowed
                     /\ ~(now - lastSignalTime < MIN_SIGNAL_INTERVAL)
                     /\ \E side \in Sides, r \in IdSuffixes :
                          ledger' = Ledger_openPosition(canOpen.state,
                               createPosition(side, tick.price, positionSizeDollars,
                                              now, r))
                     /\ file' = ledger'
                     /\ lastSignalTime' = now
                     /\ tick' = [tick EXCEPT !.overrides = o, !.opened = TRUE]
                     /\ CallPush("opened-pushed")
    /\ UNCHANGED <<closes, timeVars, lastGitHubSync, probeVars, procVars>>

\* From the trading gate to `await ledger.openPosition(position)`, the
\* detected signals having their side in `sides`.  The overrides were
\* fetched before the bars; nothing reads them earlier than this, so the
\* model draws them here.
ScanEntry(sides) ==
    /\ \/ pc = "gate"
       \/ pc = "closed-pushed" /\ push.pc = "done"
    /\ \E o \in Overrides :
         IF ~o.tradingEnabled
         THEN /\ pc' = "timer"
              /\ tick' = [tick EXCEPT !.overrides = o]
              /\ UNCHANGED <<ledger, file, gate, lastSignalTime, syncVars>>
         ELSE
           LET canOpen == canOpenPosition(ledger, now)
           IN  /\ gate' = [allowed |-> canOpen.allowed, reason |-> canOpen.reason]
               /\ \/ \* not allowed, cooling down, no signal, or the other side
                     /\ ledger' = canOpen.state
                     /\ pc' = "timer"
                     /\ tick' = [tick EXCEPT !.overrides = o]
                     /\ UNCHANGED <<file, lastSignalTime, syncVars>>
                  \/ \* a signal on an accepted side: open
                     /\ canOpen.allowed
                     /\ ~(now - lastSignalTime < MIN_SIGNAL_INTERVAL)
                     /\ \E side \in sides, r \in IdSuffixes :
                          /\ o.preferredSide \in {"none", side}
                          /\ ledger' = Ledger_openPosition(canOpen.state,
                               createPosition(side, tick.price, positionSizeDollars,
                                              now, r))
                     /\ file' = ledger'
                     /\ lastSignalTime' = now
                     /\ tick' = [tick EXCEPT !.overrides = o, !.opened = TRUE]
                     /\ CallPush("opened-pushed")
    /\ UNCHANGED <<closes, timeVars, lastGitHubSync, probeVars, procVars>>

\* detectMomentum of momentum-strategy.ts sets side to Long or Short in
\* every signal it returns with detected: true
ScanGate == ScanEntry(Sides)

\* the scan has returned, its locals are gone: the periodic push of the loop
LoopTimer ==
    /\ \/ pc = "timer"
       \/ pc = "opened-pushed" /\ push.pc = "done"
    /\ tick' = NoTick
    /\ gate' = NoGate
    /\ IF now - lastGitHubSync > GITHUB_SYNC_INTERVAL
       THEN CallPush("timer-pushed")
       ELSE pc' = "sleep" /\ UNCHANGED syncVars
    /\ UNCHANGED <<ledger, file, closes, timeVars, lastSignalTime, lastGitHubSync, probeVars, procVars>>

\* lastGitHubSync = Date.now()
LoopSynced ==
    /\ pc = "timer-pushed" /\ push.pc = "done"
    /\ lastGitHubSync' = now
    /\ pc' = "sleep"
    /\ UNCHANGED <<ledgerVars, timeVars, syncVars, tick, lastSignalTime, probeVars, procVars>>

LoopPush == PushStep /\ UNCHANGED <<gate, closes, timeVars, loopVars, probeVars, procVars>>

\* Only a push observes the remote file, so a write by another writer is
\* taken to land while a push is under way: one that lands earlier is seen
\* as one that lands when the next push has just begun.
LoopForeign ==
    /\ push.pc \notin {"idle", "done"}
    /\ OtherWriter
    /\ UNCHANGED <<ledgerVars, timeVars, loopVars, probeVars, procVars>>

\* main(): no remote ledger yet, load() saves the defaults
Init ==
    /\ now = StartTime
    /\ clock = 0
    /\ ledger = DefaultLedger(StartTime)
    /\ file = DefaultLedger(StartTime)
    /\ gate = NoGate
    /\ closes = 0
    /\ SyncIdle
    /\ pc = "scan"
    /\ tick = NoTick
    /\ lastSignalTime = 0
    /\ lastGitHubSync = 0
    /\ ProbeIdle
    /\ ProcIdle

Next ==
    \/ Sleep \/ ScanReset \/ ScanFetch \/ ScanEvaluate \/ ScanGate
    \/ LoopTimer \/ LoopSynced \/ LoopPush \/ LoopForeign

Spec == Init /\ [][Next]_vars

(***************************************************************************)
(* SignalSpec: the scan loop fed with every signal the MomentumSignal      *)
(* interface admits (detected: boolean; side?: "Long" | "Short"), a        *)
(* detected signal without side among them, as detectReversal of           *)
(* reversal-strategy.ts returns it.  The detectMomentum(candles,           *)
(* threshold, chase) that server.ts calls is not the one-parameter         *)
(* function of momentum-strategy.ts; scan sees its result through the      *)
(* interface alone.  GITHUB_TOKEN is unset: no push sends a request.       *)
(***************************************************************************)
SignalSides == Sides \cup {"undefined"}

SignalInit ==
    /\ now = StartTime
    /\ clock = 0
    /\ ledger = DefaultLedger(StartTime)
    /\ file = DefaultLedger(StartTime)
    /\ gate = NoGate
    /\ closes = 0
    /\ token = FALSE
    /\ sha = NoFile
    /\ remote = NoFile
    /\ push = IdlePush
    /\ faults = 0
    /\ pc = "scan"
    /\ tick = NoTick
    /\ lastSignalTime = 0
    /\ lastGitHubSync = 0
    /\ ProbeIdle
    /\ ProcIdle

\* createPosition(signal.side!, currentPrice, ...) with any signal
ScanSignal == ScanEntry(SignalSides)

SignalNext ==
    \/ Sleep \/ ScanReset \/ ScanFetch \/ ScanEvaluate \/ ScanSignal
    \/ LoopTimer \/ LoopSynced

SignalSpec == SignalInit /\ [][SignalNext]_vars

(***************************************************************************)
(* TickSpec: the scan loop kept ticking.  Every sleep returns after        *)
(* SCAN_INTERVAL, every bar fetch succeeds, no token is configured, and    *)
(* each step of the loop is taken once it can be: the loop is one chain of *)
(* awaits.  The bars close around 70000, 40 dollars apart: a position      *)
(* entered at one of the two prices and looked at at the other is a few    *)
(* dollars under water, which no rung before the timeout closes.           *)
(***************************************************************************)
MaxTicks == 6                       \* sleeps of the loop (TickSpec)
TickPrices == {70000, 70040}

TickInit ==
    /\ now = StartTime
    /\ clock = 0
    /\ ledger = DefaultLedger(StartTime)
    /\ file = DefaultLedger(StartTime)
    /\ gate = NoGate
    /\ closes = 0
    /\ token = FALSE
    /\ sha = NoFile
    /\ remote = NoFile
    /\ push = IdlePush
    /\ faults = 0
    /\ pc = "scan"
    /\ tick = NoTick
    /\ lastSignalTime = 0
    /\ lastGitHubSync = 0
    /\ ProbeIdle
    /\ ProcIdle

\* await Bun.sleep(SCAN_INTERVAL_MS) returning on time
TickSleep ==
    /\ pc = "sleep"
    /\ isRunning
    /\ clock < MaxTicks
    /\ clock' = clock + 1
    /\ now' = now + SCAN_INTERVAL
    /\ pc' = "scan"
    /\ UNCHANGED <<ledgerVars, syncVars, tick, lastSignalTime, lastGitHubSync, probeVars, procVars>>

\* getKlines returning bars
TickFetch ==
    /\ \/ pc = "fetch"
       \/ pc = "reset-pushed" /\ push.pc = "done"
    /\ \E price \in TickPrices :
         tick' = [NoTick EXCEPT !.price = price,
                                !.openBefore = openPositions(ledger)]
    /\ pc' = "evaluate"
    /\ UNCHANGED <<ledgerVars, timeVars, syncVars, lastSignalTime, lastGitHubSync, probeVars, procVars>>

TickNext ==
    \/ TickSleep \/ ScanReset \/ TickFetch \/ ScanEvaluate \/ ScanGate
    \/ LoopTimer \/ LoopSynced

TickSpec == TickInit /\ [][TickNext]_vars /\ WF_vars(TickNext)

(***************************************************************************)
(* HourSpec: the scan loop over a busy hour.  The bars close at 70000 and  *)
(* at 70250 in turn or not, far enough apart to close a Long entered at    *)
(* the other price one scan later, at its stop or at its target; every     *)
(* signal is a Long; no token is configured.  A sleep returns after        *)
(* SCAN_INTERVAL or, held up, after more than an hour.                     *)
(***************************************************************************)
MaxHourTicks == 5                   \* sleeps of the loop (HourSpec)
HourPrices == {70000, 70250}

\* await Bun.sleep(SCAN_INTERVAL_MS)
HourSleep ==
    /\ pc = "sleep"
    /\ isRunning
    /\ clock < MaxHourTicks
    /\ clock' = clock + 1
    /\ \E d \in Steps : now' = now + d
    /\ pc' = "scan"
    /\ UNCHANGED <<ledgerVars, syncVars, tick, lastSignalTime, lastGitHubSync, probeVars, procVars>>

\* getKlines returning bars
HourFetch ==
    /\ \/ pc = "fetch"
       \/ pc = "reset-pushed" /\ push.pc = "done"
    /\ \E price \in HourPrices :
         tick' = [NoTick EXCEPT !.price = price,
                                !.openBefore = openPositions(ledger)]
    /\ pc' = "evaluate"
    /\ UNCHANGED <<ledgerVars, timeVars, syncVars, lastSignalTime, lastGitHubSync, probeVars, procVars>>

\* the gate and the entry of scan, every detected signal a Long
HourGate == ScanEntry(LedgerSides)

HourNext ==
    \/ HourSleep \/ ScanReset \/ HourFetch \/ ScanEvaluate \/ HourGate
    \/ LoopTimer \/ LoopSynced

HourSpec == TickInit /\ [][HourNext]_vars

(***************************************************************************)
(* BootSpec: the start of main, from the constructors to the scan loop.    *)
(* The process finds any remote file and any local file: none, one that    *)
(* does not parse, or a ledger; ./data may be missing when the file is.    *)
(* probe keeps what pullLedger returned and what Ledger.load read.         *)
(***************************************************************************)
Corrupt == [corrupt |-> TRUE]       \* content JSON.parse throws on

Parses(content) == "balance" \in DOMAIN content

NoBoot ==
    [ pulled  |-> "none",       \* what pullLedger returned: none, true, false
      content |-> NoFile,       \* the remote content it wrote to the local file
      loaded  |-> FALSE,        \* Ledger.load has returned
      read    |-> NoFile,       \* the local file as Ledger.load found it
      clock   |-> 0,            \* the clock when the scan loop started
      starts  |-> 0,            \* process starts before this one
      carried |-> {} ]          \* ids open and replicated when the last process exited

\* new Ledger(), new GitHubSync(), no request sent yet
BootInit ==
    /\ now = StartTime
    /\ clock = 0
    /\ ledger = DefaultLedger(StartTime)
    /\ file \in {NoFile, Corrupt} \cup SampleLedgers
    /\ dataDir \in BOOLEAN
    /\ file # NoFile => dataDir
    /\ gate = NoGate
    /\ closes = 0
    /\ token \in BOOLEAN
    /\ sha = NoFile
    /\ remote \in {NoFile, Corrupt} \cup SampleLedgers
    /\ push = IdlePush
    /\ faults = 0
    /\ pc = "pull"
    /\ tick = NoTick
    /\ lastSignalTime = 0
    /\ lastGitHubSync = 0
    /\ probe = NoBoot
    /\ verdict = NoUpdate
    /\ isRunning = TRUE
    /\ final = IdlePush

\* pullLedger with "await writeFile(LOCAL_LEDGER, content)" left out
BootPull_noWrite ==
    /\ pc = "pull"
    /\ pc' = "load"
    /\ IF ~token
       THEN /\ probe' = [probe EXCEPT !.pulled = "false"]
            /\ UNCHANGED <<sha, file, dataDir, faults>>
       ELSE \E reachable \in BOOLEAN :
              /\ Network(reachable)
              /\ IF reachable /\ remote # NoFile
                 THEN /\ sha' = remote
                      /\ dataDir' = TRUE
                      /\ probe' = [probe EXCEPT !.pulled = "true", !.content = remote]
                      /\ UNCHANGED file
                 ELSE /\ probe' = [probe EXCEPT !.pulled = "false"]
                      /\ UNCHANGED <<sha, file, dataDir>>
    /\ UNCHANGED <<ledger, gate, closes, timeVars, token, remote, push,
                   tick, lastSignalTime, lastGitHubSync, verdict, isRunning, final>>

\* const pulled = await ghSync.pullLedger()
BootPull ==
    /\ pc = "pull"
    /\ pc' = "load"
    /\ IF ~token
       THEN /\ probe' = [probe EXCEPT !.pulled = "false"]
            /\ UNCHANGED <<sha, file, dataDir, faults>>
       ELSE \E reachable \in BOOLEAN :
              /\ Network(reachable)
              /\ IF reachable /\ remote # NoFile
                 THEN \* this.sha = data.sha; mkdir; writeFile; return true
                      /\ sha' = remote
                      /\ dataDir' = TRUE
                      /\ file' = remote
                      /\ probe' = [probe EXCEPT !.pulled = "true", !.content = remote]
                 ELSE \* !resp.ok, or the request throws: return false
                      /\ probe' = [probe EXCEPT !.pulled = "false"]
                      /\ UNCHANGED <<sha, file, dataDir>>
    /\ UNCHANGED <<ledger, gate, closes, timeVars, token, remote, push,
                   tick, lastSignalTime, lastGitHubSync, verdict, isRunning, final>>

\* await ledger.load(), in either branch of "if (pulled)".  A file that is
\* missing or does not parse takes load to its catch and save(); writeFile
\* throws when ./data is missing, load and main reject with it, and
\* main().catch ends the process with exit code 1.
BootLoad ==
    /\ pc = "load"
    /\ probe' = [probe EXCEPT !.loaded = TRUE, !.read = file, !.clock = clock]
    /\ IF Parses(file)
       THEN /\ ledger' = file
            /\ pc' = "scan"
            /\ UNCHANGED file
       ELSE IF dataDir
       THEN /\ file' = ledger
            /\ pc' = "scan"
            /\ UNCHANGED ledger
       ELSE /\ pc' = "failed"
            /\ UNCHANGED <<ledger, file>>
    /\ UNCHANGED <<gate, closes, timeVars, syncVars, tick, lastSignalTime,
                   lastGitHubSync, verdict, procVars>>

BootNext == BootPull \/ BootLoad

BootSpec == BootInit /\ [][BootNext]_vars

(***************************************************************************)
(* SaveSpec: Ledger.save step by step.  writeFile opens ./data/ledger.json *)
(* for writing, which empties it, writes JSON.stringify(this.state) and    *)
(* closes it; the process can be stopped (a kill, a redeploy, a power      *)
(* loss) between any two steps.  A caller opens and closes positions;      *)
(* probe keeps the file as it was before the save in progress and the      *)
(* ledger being saved.                                                     *)
(***************************************************************************)
Partial == [partial |-> TRUE]       \* an emptied or half-written file

SaveInit ==
    /\ now = StartTime
    /\ clock = 0
    /\ ledger = DefaultLedger(StartTime)
    /\ file = DefaultLedger(StartTime)
    /\ gate = NoGate
    /\ closes = 0
    /\ SyncIdle
    /\ pc = "off"
    /\ tick = NoTick
    /\ lastSignalTime = 0
    /\ lastGitHubSync = 0
    /\ probe = [previous |-> DefaultLedger(StartTime), next |-> DefaultLedger(StartTime)]
    /\ verdict = NoUpdate
    /\ ProcIdle

\* ledger.openPosition(position) up to its "await this.save()"
SaveOpen ==
    /\ pc = "off"
    /\ Len(ledger.positions) < MaxOpens
    /\ \E side \in LedgerSides, price \in LedgerEntries, r \in LedgerIdSuffixes :
          ledger' = Ledger_openPosition(ledger,
                      createPosition(side, price, positionSizeDollars, now, r))
    /\ probe' = [previous |-> file, next |-> ledger']
    /\ pc' = "open"
    /\ UNCHANGED <<file, gate, closes, timeVars, syncVars, tick, lastSignalTime,
                   lastGitHubSync, verdict, procVars>>

\* ledger.closePosition(id, exitPrice, reason) up to its "await this.save()"
SaveClose ==
    /\ pc = "off"
    /\ closes < MaxCloses
    /\ closes' = closes + 1
    /\ \E id \in {ledger.positions[i].id : i \in 1..Len(ledger.positions)},
          price \in LedgerPrices :
          ledger' = Ledger_closePosition(ledger, id, price, "manual", now)
    /\ probe' = [previous |-> file, next |-> ledger']
    /\ pc' = "open"
    /\ UNCHANGED <<file, gate, timeVars, syncVars, tick, lastSignalTime,
                   lastGitHubSync, verdict, procVars>>

\* writeFile: the file is opened with flag "w" and is empty
SaveTruncate ==
    /\ pc = "open"
    /\ file' = Partial
    /\ pc' = "write"
    /\ UNCHANGED <<ledger, gate, closes, timeVars, syncVars, tick, lastSignalTime,
                   lastGitHubSync, probeVars, procVars>>

\* writeFile: the data is written and the file closed; save returns
SaveWrite ==
    /\ pc = "write"
    /\ file' = ledger
    /\ pc' = "off"
    /\ UNCHANGED <<ledger, gate, closes, timeVars, syncVars, tick, lastSignalTime,
                   lastGitHubSync, probeVars, procVars>>

\* the process is stopped where it stands
Crash ==
    /\ pc \in {"off", "open", "write"}
    /\ pc' = "crashed"
    /\ UNCHANGED <<ledgerVars, timeVars, syncVars, tick, lastSignalTime,
                   lastGitHubSync, probeVars, procVars>>

SaveNext == SaveOpen \/ SaveClose \/ SaveTruncate \/ SaveWrite \/ Crash

SaveSpec == SaveInit /\ [][SaveNext]_vars

(***************************************************************************)
(* LifeSpec: a process from a sleep of its scan loop through a termination *)
(* signal to its exit, and the starts that follow.  The process has run    *)
(* for a tick: its ledger is one of SampleLedgers, saved, and replicated   *)
(* or not yet.  One signal is delivered to a process, once its handlers    *)
(* are registered; the handler's pushLedger call (final) runs beside the   *)
(* scan loop and whatever push the loop has under way, on the same         *)
(* GitHubSync.  A later start runs on the same filesystem or, after a      *)
(* redeploy, on a fresh one.  The clock has one advance left.              *)
(***************************************************************************)
MaxStarts == 1

LifeInit ==
    /\ now = StartTime + SCAN_INTERVAL
    /\ clock = MaxClock - 1
    /\ \E l \in SampleLedgers : ledger = l /\ file = l
    /\ gate = NoGate
    /\ closes = 0
    /\ token = TRUE
    /\ remote \in {NoFile, ledger}
    /\ sha = remote
    /\ push = IdlePush
    /\ faults = 0
    /\ pc = "sleep"
    /\ tick = NoTick
    /\ lastSignalTime = StartTime
    /\ lastGitHubSync = StartTime
    /\ probe = [NoBoot EXCEPT !.pulled = "false", !.loaded = TRUE]
    /\ verdict = NoUpdate
    /\ ProcIdle

InLoop ==
    pc \in {"scan", "reset-pushed", "fetch", "evaluate", "closed-pushed", "gate",
            "opened-pushed", "timer", "timer-pushed", "sleep"}

\* SIGTERM or SIGINT: isRunning = false; await ghSync.pushLedger().  The
\* signals are MaxStarts in all, each followed by a start.
Signal ==
    /\ InLoop
    /\ isRunning
    /\ probe.starts < MaxStarts
    /\ isRunning' = FALSE
    /\ final' = PushBegin
    /\ UNCHANGED <<ledgerVars, timeVars, syncVars, loopVars, probeVars, dataDir>>

\* a step of the handler's pushLedger call
FinalPush ==
    /\ InLoop
    /\ \/ ReadStep(final, final')
       \/ FetchStep(final, final')
       \/ PutStep(final, final')
       \/ RefetchStep(final, final')
    /\ UNCHANGED <<push, gate, closes, timeVars, loopVars, probeVars, dataDir,
                   isRunning>>

IdsOpenIn(l) ==
    IF Parses(l)
    THEN {l.positions[i].id : i \in {j \in 1..Len(l.positions) :
                                       l.positions[j].status = "open"}}
    ELSE {}

\* a handler that closes what is open before it exits
Exit_closeAll ==
    /\ InLoop
    /\ final.pc = "done"
    /\ pc' = "exited"
    /\ push' = IdlePush
    /\ ledger' = [ledger EXCEPT !.positions =
                    [i \in 1..Len(ledger.positions) |->
                       IF ledger.positions[i].status = "open"
                       THEN closePosition(ledger.positions[i],
                                          ledger.positions[i].entryPrice,
                                          "shutdown", now)
                       ELSE ledger.positions[i]]]
    /\ file' = ledger'
    /\ probe' = [probe EXCEPT !.carried = IdsOpenIn(ledger) \cap IdsOpenIn(remote)]
    /\ UNCHANGED <<gate, closes, timeVars, token, sha, remote, faults, tick,
                   lastSignalTime, lastGitHubSync, verdict, procVars>>

\* a handler that does not await its push: process.exit(0) right away
Exit_early ==
    /\ InLoop
    /\ final.pc # "idle"
    /\ pc' = "exited"
    /\ push' = IdlePush
    /\ probe' = [probe EXCEPT !.carried = IdsOpenIn(ledger) \cap IdsOpenIn(remote)]
    /\ UNCHANGED <<ledgerVars, timeVars, token, sha, remote, faults, tick,
                   lastSignalTime, lastGitHubSync, verdict, procVars>>

\* process.exit(0), the handler's push having returned; what the loop had
\* under way ends with the process
Exit ==
    /\ InLoop
    /\ final.pc = "done"
    /\ pc' = "exited"
    /\ push' = IdlePush
    /\ probe' = [probe EXCEPT !.carried = IdsOpenIn(ledger) \cap IdsOpenIn(remote)]
    /\ UNCHANGED <<ledgerVars, timeVars, token, sha, remote, faults, tick,
                   lastSignalTime, lastGitHubSync, verdict, procVars>>

\* The time from the exit of one process to the start of main in the next:
\* starting a process takes time, so Date.now() has moved on.
Downtimes == {1}

\* the next process: module state and the constructors of main
Restart ==
    /\ pc = "exited"
    /\ \E d \in Downtimes : now' = now + d
    /\ probe' = [NoBoot EXCEPT !.starts = probe.starts + 1,
                               !.carried = probe.carried]
    /\ ledger' = DefaultLedger(now)
    /\ file' \in {file, NoFile}
    /\ dataDir' = TRUE
    /\ gate' = NoGate
    /\ sha' = NoFile
    /\ push' = IdlePush
    /\ final' = IdlePush
    /\ isRunning' = TRUE
    /\ pc' = "pull"
    /\ tick' = NoTick
    /\ lastSignalTime' = 0
    /\ lastGitHubSync' = 0
    /\ UNCHANGED <<closes, clock, token, remote, faults, verdict>>

LifeNext ==
    \/ BootPull \/ BootLoad
    \/ Sleep \/ ScanReset \/ ScanFetch \/ ScanEvaluate \/ ScanGate
    \/ LoopTimer \/ LoopSynced \/ LoopPush
    \/ Signal \/ FinalPush \/ Exit \/ Restart

LifeSpec == LifeInit /\ [][LifeNext]_vars

(***************************************************************************)
(* Properties                                                              *)
(***************************************************************************)
ClosedPnl(l) ==
    LET closed == closedPositions(l)
    IN  SumSeq([i \in 1..Len(closed) |-> closed[i].pnl])

\* C1, conservation: between any two ledger calls, also while positions are
\* open, balance = initialBalance + the pnl of all closed positions.
\* (LedgerSpec)
C1_Conservation ==
    ledger.balance = ledger.initialBalance + ClosedPnl(ledger)

\* A closePosition call that closes no open position: its id is unknown or
\* its position is closed already.
Reclose == closes' = closes + 1 /\ openPositions(ledger') = openPositions(ledger)

\* C2, idempotent close: a closePosition call that finds no open position
\* under the id (the stored position is closed already) changes nothing of
\* the ledger.  (LedgerSpec)
C2_IdempotentClose ==
    [][Reclose => ledger' = ledger]_vars

\* The rungs of the exit ladder in the order of the claim, each with the
\* condition under which it fires and the reason it reports.
StopHit(p, price) ==
    \/ p.side = "Long"  /\ price * 10000 <= p.stopLoss
    \/ p.side = "Short" /\ price * 10000 >= p.stopLoss

TargetHit(p, price) == NetPnl(p, price) >= p.minProfitTarget

Ladder(p, price, t) ==
    LET elapsed == t - p.entryTime
        net     == NetPnl(p, price)
    IN  << [fires |-> StopHit(p, price),   reason |-> "stop-loss"],
           [fires |-> net >= p.maxProfitTarget, reason |-> "max-profit"],
           [fires |-> TargetHit(p, price), reason |-> "take-profit"],
           [fires |-> elapsed >= quickExitSeconds /\ net >= quickGrabDollars,
            reason |-> "quick-profit"],
           [fires |-> elapsed >= breakevenSeconds /\ net >= 0,
            reason |-> "breakeven-exit"],
           [fires |-> elapsed >= underwaterCutSeconds /\ net < underwaterMinLoss,
            reason |-> "underwater-cut"],
           [fires |-> elapsed >= maxTradeSeconds,
            reason |-> IF net >= 0 THEN "timeout-green" ELSE "timeout-red"] >>

FirstOf(S) == CHOOSE i \in S : \A j \in S : i <= j

\* C3, exit ladder priority: updatePosition returns the decision of the
\* first rung that fires, in the order stop-loss, max-profit, take-profit,
\* quick grab, breakeven, underwater cut, timeout; it keeps the position
\* only when no rung fires; stop-loss and take-profit firing together give
\* stop-loss.  (LadderSpec)
C3_LadderPriority ==
    verdict # NoUpdate =>
      LET rungs  == Ladder(probe.position, probe.price, probe.t)
          firing == {i \in 1..Len(rungs) : rungs[i].fires}
      IN  /\ firing = {} <=> ~verdict.shouldClose
          /\ firing # {} =>
               /\ verdict.reason = rungs[FirstOf(firing)].reason
               /\ verdict.exitPrice = probe.price
          /\ StopHit(probe.position, probe.price)
               /\ TargetHit(probe.position, probe.price)
             => verdict.reason = "stop-loss"

\* a stop and a profit target hit by the same price, decided as stop-loss
C3_Witness ==
    /\ verdict # NoUpdate
    /\ StopHit(probe.position, probe.price)
    /\ TargetHit(probe.position, probe.price)
    /\ verdict.reason = "stop-loss"

\* C4, risk monotonicity: once |dailyPnl| >= maxDailyLossDollars, no step
\* other than resetDaily (LedgerSpec has none) leads to a state in which
\* canOpenPosition allows an entry; stated for the steps that open a
\* position, close an open one or let time pass.  (LedgerSpec)
C4_RiskMonotonicity ==
    [][(Abs(ledger.dailyPnl) >= maxDailyLossDollars /\ ~Reclose)
        => ~canOpenPosition(ledger', now').allowed]_vars

C6_RetryCorrect ==
    [][(push.pc = "put" /\ push'.pc = "done" /\ push'.result = "true"
          /\ push'.conflicts = 1)
        => /\ remote' = file'
           /\ file' = file
           /\ push'.writes = 1
           /\ push'.puts = 2]_vars

\* a push that met a conflict and succeeded on the retry
C6_Witness ==
    /\ push.pc = "done"
    /\ push.result = "true"
    /\ push.conflicts = 1
    /\ push.writes = 1
    /\ remote = file

\* C7, persist before replicate: when a push starts, the ledger file holds
\* the in-memory ledger state, so what the push reads and sends is that
\* state.  (Spec)
C7_PersistBeforeReplicate ==
    push.pc = "read" => file = ledger

\* C8, tick ordering: when canOpenPosition has been consulted or a position
\* opened in a scan, the loop over the open positions is over, and every
\* position still open from before was evaluated at this scan's price and
\* kept; the position opened in this scan is the last step of the scan's
\* trading, still open.  (Spec)
C8_TickOrdering ==
    /\ (gate # NoGate \/ tick.opened) =>
         /\ tick.openBefore = << >>
         /\ pc \notin {"scan", "reset-pushed", "fetch", "evaluate", "closed-pushed"}
         /\ \A i \in 1..Len(ledger.positions) :
              LET p == ledger.positions[i]
              IN  (p.status = "open" /\ ~(tick.opened /\ i = Len(ledger.positions)))
                  => ~updatePosition(p, tick.price, now).shouldClose
    /\ tick.opened =>
         /\ pc = "opened-pushed"
         /\ ledger.positions # << >>
         /\ LET p == ledger.positions[Len(ledger.positions)]
            IN  p.status = "open" /\ p.entryTime = now /\ p.entryPrice = tick.price

\* a scan that closed a position and then opened the next one
C8_Witness ==
    /\ tick.opened
    /\ tick.positionClosed
    /\ Len(ledger.positions) >= 2
    /\ ledger.positions[Len(ledger.positions) - 1].exitTime = now

GateReasons ==
    <<"paused", "max-positions", "daily-loss", "trades-per-hour",
      "insufficient-balance">>

\* The five checks of the gate in the order of the claim: TRUE where the
\* check fails.
GateFails(l, t) ==
    << l.pausedUntil # 0 /\ t < l.pausedUntil,
       Len(openPositions(l)) >= maxPositions,
       Abs(l.dailyPnl) >= maxDailyLossDollars,
       (IF t - l.lastHourReset > HourSeconds THEN 0 ELSE l.tradesThisHour)
          >= maxTradesPerHour,
       availableBalance(l) < riskPerTrade >>

\* C9, gate order: canOpenPosition reports the reason of the earliest
\* failing check in the order pause, open positions, daily loss, hourly
\* cap, balance, and allows exactly when none fails.  (GateSpec)
C9_GateOrder ==
    (probe # NoFile /\ probe.call = "canOpenPosition") =>
      LET fails   == GateFails(probe.ledger, probe.t)
          failing == {i \in 1..Len(fails) : fails[i]}
      IN  /\ gate.allowed <=> failing = {}
          /\ failing # {} => gate.reason = GateReasons[FirstOf(failing)]

\* the position count and the daily cap both fail: the count is reported
C9_Witness ==
    /\ probe # NoFile
    /\ probe.call = "canOpenPosition"
    /\ GateFails(probe.ledger, probe.t)[2]
    /\ GateFails(probe.ledger, probe.t)[3]
    /\ GateFails(probe.ledger, probe.t)[5]
    /\ gate.reason = "max-positions"

LastExitTime(l) ==
    LET closed == closedPositions(l)
        times  == {closed[i].exitTime : i \in 1..Len(closed)}
    IN  CHOOSE t \in times : \A u \in times : u <= t

\* C10, loss-streak pause: when the latest close was the losing close that
\* brought consecutiveLosses to maxConsecutiveLosses (or beyond),
\* pausedUntil is the time of that close plus pauseAfterLossesMinutes; and a
\* canOpenPosition call made before pausedUntil is refused as paused.
\* (LedgerSpec)
C10_LossStreakPause ==
    /\ ledger.consecutiveLosses >= maxConsecutiveLosses =>
         ledger.pausedUntil = LastExitTime(ledger) + pauseAfterLossesMinutes * 60
    /\ (gate # NoGate /\ now < ledger.pausedUntil) =>
         gate = [allowed |-> FALSE, reason |-> "paused"]

\* three positions closed at a loss, and the gate asked during the pause
C10_Witness ==
    /\ gate = [allowed |-> FALSE, reason |-> "paused"]
    /\ ledger.consecutiveLosses = maxConsecutiveLosses
    /\ Len(ledger.positions) = 3
    /\ \A i \in 1..3 : ledger.positions[i].status = "closed"
                        /\ ledger.positions[i].pnl < 0
    /\ Cardinality({ledger.positions[i].id : i \in 1..3}) = 3
    /\ now < ledger.pausedUntil

\* C11, a push leaves local state alone: every step of a pushLedger call,
\* from the call itself (which returns at once without a token) to its
\* return after a success, a retry, a second conflict or a failed request,
\* leaves the in-memory ledger and the local ledger file as they were.
\* (PushSpec)
C11_PushFrame ==
    [][push' # push => ledger' = ledger /\ file' = file]_vars

\* a push abandoned on its second conflict, the local ledger still in place
\* and different from the remote one
C11_Witness ==
    /\ push.pc = "done"
    /\ push.result = "false"
    /\ push.conflicts = 2
    /\ file = ledger
    /\ remote # file

\* C12, reconciliation: with a token configured, once the writes of other
\* writers and the failing requests have ended and pushes keep being
\* triggered, a push that returned false (abandoned on its second conflict
\* or failed otherwise) is followed by one that returns true and leaves the
\* remote file equal to the local ledger file.  (ReconcileSpec)
Unpushed == token /\ push.pc = "done" /\ push.result = "false"

Reconciled == push.pc = "done" /\ push.result = "true" /\ remote = file

C12_Reconciliation == Unpushed ~> Reconciled

\* a push that succeeded, the one before it abandoned on two conflicts
C12_Witness ==
    /\ Reconciled
    /\ probe.result = "false"
    /\ probe.conflicts = 2

C14_StartupNeverFails ==
    (probe.loaded /\ ~Parses(probe.read))
      => pc = "scan" /\ ledger = DefaultLedger(StartTime)

\* C15, atomic persistence, as claimed: when the process is stopped at any
\* step of a save, the local ledger file holds the complete ledger it held
\* before the save or the complete ledger being saved.  (SaveSpec)
C15_AtomicSave ==
    pc = "crashed" => file \in {probe.previous, probe.next}

\* C19, advisory override gate: a step of the scan loop that appends a
\* position does so in a tick whose overrides have tradingEnabled, and with
\* a preferredSide set the position is on that side; the step that finds
\* tradingEnabled=false comes after every position open at the start of the
\* tick has been through the exit ladder, and opens nothing.  (Spec)
Appended == Len(ledger'.positions) > Len(ledger.positions)

C19_OverrideGate ==
    [][/\ Appended =>
            /\ tick'.overrides.tradingEnabled
            /\ tick'.overrides.preferredSide
                 \in {"none", ledger'.positions[Len(ledger'.positions)].side}
       /\ (tick.overrides.tradingEnabled /\ ~tick'.overrides.tradingEnabled) =>
            /\ tick.openBefore = << >>
            /\ tick.price # 0
            /\ ledger' = ledger
            /\ pc' = "timer"]_vars

\* a tick with trading disabled that closed the open position and opened
\* none
C19_Witness ==
    /\ ~tick.overrides.tradingEnabled
    /\ tick.positionClosed
    /\ ~tick.opened
    /\ openPositions(ledger) = << >>

\* C20, transient I/O failures: a failed override or bar fetch ends the tick
\* with ledger and file untouched and the loop at its timer, on its way to
\* the next tick; a pushLedger call that returns false leaves the loop
\* where it awaited the call, from where it goes on; and positions are
\* appended or closed only in a tick that has fetched its bars.  (Spec)
PositionsChanged == ledger'.positions # ledger.positions

C20_TransientFailures ==
    [][/\ PositionsChanged => tick.price # 0 /\ tick'.price # 0
       /\ (pc \in {"fetch", "reset-pushed"} /\ pc' = "timer") =>
            ledger' = ledger /\ file' = file /\ isRunning'
       /\ (push.pc \notin {"idle", "done"} /\ push'.pc = "done"
             /\ push'.result = "false") =>
            /\ pc' = pc
            /\ pc \in {"reset-pushed", "closed-pushed", "opened-pushed",
                       "timer-pushed"}
            /\ ledger' = ledger /\ file' = file]_vars

\* a tick whose bar fetch failed, the open position still open
C20_Witness ==
    /\ pc = "timer"
    /\ tick.price = 0
    /\ openPositions(ledger) # << >>

\* C18, malformed signal, as claimed: every position of the ledger has side
\* Long or Short, its stop below and its target above the entry price for a
\* Long and the other way round for a Short; a detected signal without a
\* valid side has opened nothing.  (SignalSpec)
WellFormed(p) ==
    /\ p.side \in {"Long", "Short"}
    /\ p.side = "Long"  => p.stopLoss < p.entryPrice * 10000
                           /\ p.entryPrice * 10000 < p.takeProfit
    /\ p.side = "Short" => p.takeProfit < p.entryPrice * 10000
                           /\ p.entryPrice * 10000 < p.stopLoss

C18_MalformedSignal ==
    \A i \in 1..Len(ledger.positions) : WellFormed(ledger.positions[i])

\* C16, graceful shutdown: a process that has exited on a termination
\* signal has called pushLedger from the handler, and the call had returned,
\* with true or false, when the process exited.  (LifeSpec)
C16_FinalPush ==
    pc = "exited" => final.pc = "done" /\ final.result \in {"true", "false"}

\* a process exited with its last ledger on the remote, written by the
\* handler's push
C16_Witness ==
    /\ pc = "exited"
    /\ final.result = "true"
    /\ final.writes = 1
    /\ remote = file

\* C17, shutdown never closes positions, as claimed: no step of a signal
\* handler (the signal, its push, the exit) changes a position, and in the
\* first tick of the next start the positions that were open and replicated
\* at the exit are all in the tick's snapshot of open positions, each of
\* which the exit ladder evaluates.  (LifeSpec)
HandlerStep ==
    \/ isRunning /\ ~isRunning'
    \/ final.pc \notin {"idle", "done"} /\ final' # final
    \/ pc # "exited" /\ pc' = "exited"

IdsOf(positions) == {positions[i].id : i \in 1..Len(positions)}

FetchStep_ == pc \in {"fetch", "reset-pushed"} /\ pc' \in {"timer", "evaluate"}

OpenCollateral(l) ==
    SumSeq([i \in 1..Len(l.positions) |->
              IF l.positions[i].status = "open" THEN l.positions[i].collateral ELSE 0])

C21_CollateralReservation ==
    availableBalance(ledger) = ledger.balance - OpenCollateral(ledger)

\* one position open and one closed
C21_Witness ==
    /\ Len(openPositions(ledger)) = 1
    /\ Len(closedPositions(ledger)) = 1
    /\ availableBalance(ledger) = ledger.balance - positionSizeDollars

\* C22, counter resets, as claimed: tradesThisHour goes back to zero only
\* when more than an hour has passed since lastHourReset, and dailyPnl and
\* consecutiveLosses go back to zero only in a resetDaily.  (Spec)
DailyResetStep == ledger' = resetDaily(ledger, now)

C22_CounterResets ==
    [][/\ ledger'.tradesThisHour < ledger.tradesThisHour
            => now - ledger.lastHourReset > HourSeconds
       /\ (ledger.dailyPnl # 0 /\ ledger'.dailyPnl = 0) => DailyResetStep
       /\ (ledger.consecutiveLosses # 0 /\ ledger'.consecutiveLosses = 0)
            => DailyResetStep]_vars

\* The pnl of the position a step closes, when it closes exactly one.
ClosedNow ==
    {i \in 1..Len(ledger.positions) :
        /\ ledger.positions[i].status = "open"
        /\ ledger'.positions[i].status = "closed"}

\* C22 as amended: tradesThisHour decreases only in a canOpenPosition call
\* made more than an hour after lastHourReset; dailyPnl changes only by
\* resetDaily, to zero, or by a close, by the pnl of that close;
\* consecutiveLosses decreases only to zero, in a resetDaily or in a close
\* whose net pnl is not negative.  (Spec)
C22_CounterResetsAmended ==
    [][/\ ledger'.tradesThisHour < ledger.tradesThisHour
            => /\ now - ledger.lastHourReset > HourSeconds
               /\ ledger'.lastHourReset = now
       /\ ledger'.dailyPnl # ledger.dailyPnl
            => \/ DailyResetStep
               \/ \E i \in ClosedNow :
                    ledger'.dailyPnl = ledger.dailyPnl + ledger'.positions[i].pnl
       /\ ledger'.consecutiveLosses < ledger.consecutiveLosses
            => /\ ledger'.consecutiveLosses = 0
               /\ \/ DailyResetStep
                  \/ \E i \in ClosedNow : ledger'.positions[i].pnl >= 0]_vars

\* a loss, then a win that has ended the streak, no resetDaily in between
C22_Witness ==
    /\ Len(ledger.positions) >= 2
    /\ ledger.positions[1].status = "closed"
    /\ ledger.positions[1].pnl < 0
    /\ ledger.positions[2].status = "closed"
    /\ ledger.positions[2].pnl >= 0
    /\ ledger.consecutiveLosses = 0
    /\ ledger.lastReset = StartTime

(***************************************************************************)
(* C23: no drift between decision and settlement.  For every position and  *)
(* price p, the pnl closePosition(position, p, reason) records equals the  *)
(* netPnl updatePosition computes for that position at current price p,    *)
(* with the same grossPnl and fees.                                        *)
(***************************************************************************)
C23_NoDrift ==
    probe.closed # <<>> =>
        LET settled == probe.closed[1]
            posSize == probe.position.collateral * probe.position.leverage
        IN  /\ settled.pnl      = NetPnl(probe.position, probe.price)
            /\ settled.grossPnl = GrossPnl(probe.position, probe.price)
            /\ settled.fees     = calcFees(posSize)
            /\ settled.grossPnl - settled.fees = settled.pnl

\* a Short cut under water at a price above its entry: the loss that
\* triggered the decision is the loss that is settled
C23_Witness ==
    /\ probe.closed # <<>>
    /\ probe.position.side = "Short"
    /\ verdict.shouldClose
    /\ verdict.reason = "underwater-cut"
    /\ probe.closed[1].reason = "underwater-cut"
    /\ probe.closed[1].pnl < 0
    /\ probe.closed[1].grossPnl # 0

(***************************************************************************)
(* C24: createPosition is direction-aware.  For a Long position            *)
(* stopLoss < entryPrice < takeProfit, for a Short position                *)
(* takeProfit < entryPrice < stopLoss, in both cases the returned status   *)
(* is open, and the call changes no ledger state.  (CreateSpec)            *)
(***************************************************************************)
C24_CreatePosition ==
    [][ (verdict = NoUpdate /\ verdict' # NoUpdate) =>
          /\ verdict'.side = probe.side
          /\ verdict'.entryPrice = probe.entryPrice
          /\ verdict'.side = "Long" =>
                /\ verdict'.stopLoss < verdict'.entryPrice * 10000
                /\ verdict'.entryPrice * 10000 < verdict'.takeProfit
          /\ verdict'.side = "Short" =>
                /\ verdict'.takeProfit < verdict'.entryPrice * 10000
                /\ verdict'.entryPrice * 10000 < verdict'.stopLoss
          /\ verdict'.status = "open"
          /\ ledger' = ledger
          /\ file' = file
          /\ UNCHANGED <<remote, sha>> ]_vars

\* a Short created beside a ledger that holds an open position
C24_Witness ==
    /\ verdict # NoUpdate
    /\ verdict.side = "Short"
    /\ verdict.entryPrice = 70000
    /\ verdict.stopLoss = 70000 * (10000 + initialStopBp)
    /\ verdict.status = "open"
    /\ Len(openPositions(ledger)) = 1
    /\ Len(ledger.positions) = 1

(***************************************************************************)
(* C25: position ids are unique.  Over any run, including across process   *)
(* restarts that reload the ledger, no two entries of the ledger's         *)
(* positions sequence have the same id.  (LifeSpec)                        *)
(***************************************************************************)
C25_UniqueIds ==
    \A i, j \in 1..Len(ledger.positions) :
        ledger.positions[i].id = ledger.positions[j].id => i = j

\* a process started again on the reloaded ledger has closed the position
\* the process before it opened and has opened the next in its first scan
C25_Witness ==
    /\ probe.starts >= 1
    /\ Len(ledger.positions) >= 2
    /\ \E i \in 1..Len(ledger.positions) - 1 :
         /\ ledger.positions[i].status = "closed"
         /\ ledger.positions[i + 1].entryTime = ledger.positions[i].exitTime
         /\ ledger.positions[i + 1].entryTime - ledger.positions[i].entryTime
               \in Downtimes

(***************************************************************************)
(* C26: the positions sequence is append-only within a process run.  No    *)
(* operation removes or reorders an entry, every id once present stays at  *)
(* the same index, and an entry's fields change only through the close     *)
(* transition.  (LedgerSpec)                                               *)
(***************************************************************************)
CloseTransition(before, after) ==
    /\ after.status = "closed"
    /\ after = closePosition(before, after.exitPrice, after.reason,
                             after.exitTime)

C26_AppendOnly ==
    [][/\ Len(ledger'.positions) >= Len(ledger.positions)
       /\ \A i \in 1..Len(ledger.positions) :
            /\ ledger'.positions[i].id = ledger.positions[i].id
            /\ ledger'.positions[i] # ledger.positions[i] =>
                 /\ closes' = closes + 1
                 /\ CloseTransition(ledger.positions[i], ledger'.positions[i])
       /\ Len(ledger'.positions) > Len(ledger.positions) =>
            /\ Len(ledger'.positions) = Len(ledger.positions) + 1
            /\ SubSeq(ledger'.positions, 1, Len(ledger.positions))
                 = ledger.positions ]_vars

\* three positions, the second closed while the first and the third,
\* opened after it was closed, are open
C26_Witness ==
    /\ Len(ledger.positions) = 3
    /\ ledger.positions[1].status = "open"
    /\ ledger.positions[2].status = "closed"
    /\ ledger.positions[3].status = "open"
    /\ ledger.positions[3].entryTime >= ledger.positions[2].exitTime
    /\ ledger.positions[1].id # ledger.positions[2].id

(***************************************************************************)
(* C27: closed is terminal.  Once a position's status is closed it never   *)
(* becomes open again, and its exitPrice, exitTime, pnl and reason never   *)
(* change afterwards under any sequence of ledger operations.  (LedgerSpec)*)
(***************************************************************************)
C27_ClosedTerminal ==
    [][\A i \in 1..Len(ledger.positions) :
         ledger.positions[i].status = "closed" =>
            /\ i <= Len(ledger'.positions)
            /\ ledger'.positions[i].status    = "closed"
            /\ ledger'.positions[i].exitPrice = ledger.positions[i].exitPrice
            /\ ledger'.positions[i].exitTime  = ledger.positions[i].exitTime
            /\ ledger'.positions[i].pnl       = ledger.positions[i].pnl
            /\ ledger'.positions[i].reason    = ledger.positions[i].reason ]_vars

\* the part of C27 the code keeps: a closed position never becomes open again
C27_NeverReopened ==
    [][\A i \in 1..Len(ledger.positions) :
         ledger.positions[i].status = "closed" =>
            /\ i <= Len(ledger'.positions)
            /\ ledger'.positions[i].status = "closed" ]_vars

(***************************************************************************)
(* C28: loss-streak accounting on close.  A close whose net pnl is         *)
(* negative increments consecutiveLosses by exactly one, and a close whose *)
(* net pnl is zero or positive sets consecutiveLosses to 0; in both cases  *)
(* dailyPnl increases by exactly the net pnl and balance by collateral     *)
(* plus net pnl.  (LedgerSpec)                                             *)
(***************************************************************************)
CloseStep == closes' = closes + 1 /\ ledger' # ledger

\* the accounting of a close that took ledger state l to m and left c
CloseAccounting(l, m, c) ==
    /\ c.pnl < 0  => m.consecutiveLosses = l.consecutiveLosses + 1
    /\ c.pnl >= 0 => m.consecutiveLosses = 0
    /\ m.dailyPnl = l.dailyPnl + c.pnl
    /\ m.balance  = l.balance + c.collateral + c.pnl

\* the exit price at which the gross pnl of a Long just covers the fees
BreakEvenPrice(p) ==
    p.entryPrice + (calcFees(p.collateral * p.leverage) * p.entryPrice)
                      \div (p.collateral * p.leverage)

\* every close the caller makes, at a loss or at a gain
C28_EveryClose ==
    CloseStep =>
        \E i \in 1..Len(ledger.positions) :
            /\ CloseTransition(ledger.positions[i], ledger'.positions[i])
            /\ ledger'.positions[i].exitTime = now
            /\ \A j \in 1..Len(ledger.positions) :
                 j # i => ledger'.positions[j] = ledger.positions[j]
            /\ CloseAccounting(ledger, ledger', ledger'.positions[i])

\* the close of any position the ledger holds open, at its break-even price
C28_CloseAtZero ==
    \A i \in 1..Len(ledger.positions) :
        LET p == ledger.positions[i]
            m == Ledger_closePosition(ledger, p.id, BreakEvenPrice(p),
                                      "manual", now)
        IN  (p.status = "open" /\ p.side = "Long"
               /\ FindIndex(ledger, p.id) = i) =>
              /\ m.positions[i].status = "closed"
              /\ m.positions[i].pnl = 0
              /\ CloseAccounting(ledger, m, m.positions[i])

C28_LossStreak == [][C28_EveryClose]_vars /\ []C28_CloseAtZero

\* a losing close, then a winning close that ended the streak, and a third
\* position still open
C28_Witness ==
    /\ closes = 2
    /\ Len(ledger.positions) = 3
    /\ ledger.positions[1].status = "closed" /\ ledger.positions[1].pnl < 0
    /\ ledger.positions[2].status = "closed" /\ ledger.positions[2].pnl > 0
    /\ ledger.positions[2].exitTime > ledger.positions[1].exitTime
    /\ ledger.positions[3].status = "open"
    /\ ledger.consecutiveLosses = 0
    /\ ledger.dailyPnl = ledger.positions[1].pnl + ledger.positions[2].pnl

(***************************************************************************)
(* C29: stop-loss has absolute priority.  For a Long position with         *)
(* price <= stopLoss, or a Short position with price >= stopLoss,          *)
(* updatePosition returns shouldClose = true with reason stop-loss for     *)
(* every elapsed time and every net pnl; in the scenario (balance 2000,    *)
(* Long, collateral 500, leverage 75, entry 70000, stop 69895, price       *)
(* 69890) the close has negative net pnl, the balance after it is          *)
(* 2000 - 500 + (500 + netPnl), and consecutiveLosses becomes 1.           *)
(* (LadderSpec)                                                            *)
(***************************************************************************)
StopCrossed ==
    \/ probe.position.side = "Long"
         /\ probe.price * 10000 <= probe.position.stopLoss
    \/ probe.position.side = "Short"
         /\ probe.price * 10000 >= probe.position.stopLoss

\* the position of the scenario, as the ledger holds it after its close
InScenario(c) ==
    /\ ledger.dailyStartBalance = 200000
    /\ c.side = "Long"
    /\ c.collateral = 50000
    /\ c.leverage = 75
    /\ c.entryPrice = 70000
    /\ c.stopLoss = 69895 * 10000
    /\ c.status = "closed"
    /\ c.exitPrice = 69890

C29_StopLossPriority ==
    /\ (verdict # NoUpdate /\ StopCrossed) =>
          /\ verdict.shouldClose
          /\ verdict.reason = "stop-loss"
          /\ verdict.exitPrice = probe.price
    /\ \A i \in 1..Len(ledger.positions) :
          InScenario(ledger.positions[i]) =>
             /\ ledger.positions[i].reason = "stop-loss"
             /\ ledger.positions[i].pnl < 0
             /\ ledger.balance
                  = 200000 - 50000 + (50000 + ledger.positions[i].pnl)
             /\ ledger.consecutiveLosses = 1

\* the scenario settled in the ledger: the stop crossed in the very scan
\* after the entry, decided and closed as stop-loss
C29_Witness ==
    /\ verdict # NoUpdate
    /\ StopCrossed
    /\ verdict.reason = "stop-loss"
    /\ Len(ledger.positions) = 1
    /\ InScenario(ledger.positions[1])
    /\ ledger.positions[1].pnl = NetPnl(probe.position, 69890)
    /\ ledger.balance < 200000
    /\ ledger.consecutiveLosses = 1
    /\ probe.t - probe.position.entryTime = 30

(***************************************************************************)
(* C30: every position is eventually closed.  For an open position whose   *)
(* elapsed time has reached maxTradeSeconds, updatePosition returns        *)
(* shouldClose = true at any price, so under a loop that keeps ticking     *)
(* with successful bar fetches every open position reaches status closed.  *)
(* The loop of the model stops after MaxTicks sleeps: the second half is   *)
(* stated for the positions it opens early enough to see them time out.    *)
(* (TickSpec)                                                              *)
(***************************************************************************)
TicksToTimeout == (maxTradeSeconds + SCAN_INTERVAL - 1) \div SCAN_INTERVAL

\* the scan evaluates a position that is maxTradeSeconds old
TimedOut ==
    /\ pc = "evaluate"
    /\ tick.openBefore # << >>
    /\ now - Head(tick.openBefore).entryTime >= maxTradeSeconds

OpenAt(i) ==
    /\ i <= Len(ledger.positions)
    /\ ledger.positions[i].status = "open"

ClosedAt(i) ==
    /\ i <= Len(ledger.positions)
    /\ ledger.positions[i].status = "closed"

C30_TimeoutCloses ==
    TimedOut =>
       /\ updatePosition(Head(tick.openBefore), tick.price, now).shouldClose
       /\ \A price \in Prices \cup LadderPrices \cup TickPrices :
            updatePosition(Head(tick.openBefore), price, now).shouldClose
       /\ \E i \in 1..Len(ledger.positions) :
            /\ ledger.positions[i].id = Head(tick.openBefore).id
            /\ ledger.positions[i].status = "open"
            /\ ledger'.positions[i].status = "closed"
            /\ ledger'.positions[i].exitTime = now

C30_EventuallyClosed ==
    /\ [][C30_TimeoutCloses]_vars
    /\ \A i \in 1..(MaxTicks + 1) :
         (OpenAt(i) /\ clock + TicksToTimeout <= MaxTicks) ~> ClosedAt(i)

\* a position held to the timeout: closed maxTradeSeconds after its entry
\* at a small loss, and the next one opened after it
C30_Witness ==
    /\ Len(ledger.positions) >= 2
    /\ ledger.positions[1].status = "closed"
    /\ ledger.positions[1].reason = "timeout-red"
    /\ ledger.positions[1].exitTime - ledger.positions[1].entryTime
         = maxTradeSeconds
    /\ ledger.positions[2].entryTime >= ledger.positions[1].exitTime

(***************************************************************************)
(* C31: closing an unknown id is a no-op.  Ledger.closePosition with an id *)
(* that is not in positions changes no field of the ledger state and       *)
(* persists nothing.  (GateSpec)                                           *)
(***************************************************************************)
C31_UnknownIdNoOp ==
    [][(verdict = NoUpdate /\ verdict' # NoUpdate
          /\ verdict'.call = "closePosition"
          /\ verdict'.id \notin IdsOf(ledger.positions)) =>
            /\ ~verdict'.found
            /\ ledger' = ledger
            /\ file' = file ]_vars

\* an unknown id closed on a ledger that holds an open position and whose
\* daily counters were reset in memory and not yet saved
C31_Witness ==
    /\ verdict # NoUpdate
    /\ verdict.call = "closePosition"
    /\ verdict.id = UnknownId
    /\ probe # NoFile
    /\ probe.call = "resetDaily"
    /\ openPositions(ledger) # << >>
    /\ ledger.lastReset = now
    /\ file # ledger
    /\ file.positions = ledger.positions

(***************************************************************************)
(* C32: resetDaily sets dailyStartBalance to the current balance, dailyPnl *)
(* and consecutiveLosses to 0 and lastReset to now, and leaves balance,    *)
(* positions, tradesThisHour, lastHourReset and pausedUntil unchanged.     *)
(* (GateSpec)                                                              *)
(***************************************************************************)
ResetCalled == probe = NoFile /\ probe' # NoFile /\ probe'.call = "resetDaily"

C32_ResetDailyFrame ==
    [][ResetCalled =>
         /\ ledger'.dailyStartBalance = ledger.balance
         /\ ledger'.dailyPnl = 0
         /\ ledger'.consecutiveLosses = 0
         /\ ledger'.lastReset = now
         /\ ledger'.balance = ledger.balance
         /\ ledger'.positions = ledger.positions
         /\ ledger'.tradesThisHour = ledger.tradesThisHour
         /\ ledger'.lastHourReset = ledger.lastHourReset
         /\ ledger'.pausedUntil = ledger.pausedUntil
         /\ DOMAIN ledger' = DOMAIN ledger ]_vars

\* a reset after a losing close, in a running hour and under a pause: the
\* loss streak and the daily pnl are gone, the hour and the pause stay
C32_Witness ==
    /\ probe # NoFile
    /\ probe.call = "resetDaily"
    /\ probe.ledger.consecutiveLosses = 1
    /\ probe.ledger.dailyPnl < 0
    /\ probe.ledger.balance # probe.ledger.dailyStartBalance
    /\ ledger.consecutiveLosses = 0
    /\ ledger.dailyPnl = 0
    /\ ledger.dailyStartBalance = ledger.balance
    /\ ledger.tradesThisHour = maxTradesPerHour
    /\ ledger.pausedUntil > now
    /\ ledger.lastReset = now
    /\ probe.ledger.lastReset < now

(***************************************************************************)
(* C33: collateral is reserved exactly once.  Opening a position with      *)
(* collateral c lowers availableBalance by exactly c, and closing it       *)
(* raises availableBalance by c plus its net pnl, so with no other changes *)
(* availableBalance = initialBalance + sum of closed pnl - sum of open     *)
(* collateral.  (LedgerSpec)                                               *)
(***************************************************************************)
C33_OpenAndClose ==
    /\ Appended =>
         availableBalance(ledger') =
            availableBalance(ledger)
              - ledger'.positions[Len(ledger'.positions)].collateral
    /\ \A i \in ClosedNow :
         availableBalance(ledger') =
            availableBalance(ledger) + ledger'.positions[i].collateral
              + ledger'.positions[i].pnl

C33_ReservedBalance ==
    availableBalance(ledger) =
        ledger.initialBalance + ClosedPnl(ledger) - OpenCollateral(ledger)

C33_ReservedOnce == [][C33_OpenAndClose]_vars /\ []C33_ReservedBalance

\* what the code keeps instead: the collateral of every open position is
\* taken off twice, once from balance and once by the getter, as long as no
\* closed position is closed again
C33_ReservedTwice ==
    closes = Len(closedPositions(ledger)) =>
        availableBalance(ledger) =
            ledger.initialBalance + ClosedPnl(ledger)
              - 2 * OpenCollateral(ledger)

(***************************************************************************)
(* C34: the shutdown handler's push and the scan loop never interleave     *)
(* harmfully.  A termination signal arriving while a tick is in the middle *)
(* of a save or a push cannot make two pushes run at once on the shared    *)
(* version token, and every content sent to the remote store is a complete *)
(* ledger snapshot that was the full local state at some point.  (LifeSpec)*)
(***************************************************************************)
InFlight(p) == p.pc \in {"read", "fetch", "put", "refetch"}

C34_NoConcurrentPush ==
    /\ ~(InFlight(push) /\ InFlight(final))
    /\ remote = NoFile \/ Parses(remote)
    /\ InFlight(final) /\ final.pc # "read" =>
          final.content = NoFile \/ Parses(final.content)

\* what holds of the two calls: each sends what it read from the ledger
\* file, and the file of this model, written in one step, is always a whole
\* ledger state
C34_WholeSnapshots ==
    /\ remote = NoFile \/ Parses(remote)
    /\ InFlight(final) /\ final.pc # "read" =>
          final.content = NoFile \/ Parses(final.content)
    /\ InFlight(push) /\ push.pc # "read" =>
          push.content = NoFile \/ Parses(push.content)

(***************************************************************************)
(* C35: open-position bound.  In every state reached by the tick loop from *)
(* a ledger that satisfies it, the number of open positions is at most     *)
(* maxPositions, and at most one position is opened per tick.  (Spec)      *)
(***************************************************************************)
C35_AtMostMaxOpen == Len(openPositions(ledger)) <= maxPositions

C35_OneOpenPerTick ==
    /\ Appended =>
         /\ Len(ledger'.positions) = Len(ledger.positions) + 1
         /\ ~tick.opened
         /\ tick'.opened
         /\ Len(openPositions(ledger)) < maxPositions
    /\ (tick.opened /\ ~tick'.opened) => pc' \in {"sleep", "timer-pushed"}

C35_OpenPositionBound == []C35_AtMostMaxOpen /\ [][C35_OneOpenPerTick]_vars

\* a tick refused at the gate because the position of the tick before is
\* still open
C35_Witness ==
    /\ Len(openPositions(ledger)) = maxPositions
    /\ gate = [allowed |-> FALSE, reason |-> "max-positions"]
    /\ ~tick.opened
    /\ openPositions(ledger)[1].entryTime < now

(***************************************************************************)
(* C36: hourly cap bound.  In every state reached by the tick loop,        *)
(* tradesThisHour <= maxTradesPerHour, and no more than maxTradesPerHour   *)
(* positions are opened between two consecutive resets of the hourly       *)
(* counter.  (HourSpec)                                                    *)
(***************************************************************************)
\* the positions opened since the hourly counter was last reset
OpenedThisHour(l) ==
    {i \in 1..Len(l.positions) : l.positions[i].entryTime >= l.lastHourReset}

C36_HourlyCap ==
    /\ ledger.tradesThisHour <= maxTradesPerHour
    /\ Cardinality(OpenedThisHour(ledger)) <= maxTradesPerHour
    /\ Cardinality(OpenedThisHour(ledger)) = ledger.tradesThisHour

\* the cap reached within the hour and the entry of the next scan refused
\* for it
C36_Witness ==
    /\ ledger.tradesThisHour = maxTradesPerHour
    /\ Len(ledger.positions) = maxTradesPerHour
    /\ Cardinality(OpenedThisHour(ledger)) = maxTradesPerHour
    /\ gate = [allowed |-> FALSE, reason |-> "trades-per-hour"]
    /\ now - ledger.lastHourReset <= HourSeconds

(***************************************************************************)
(* C37: timeout exits are never green.  With the breakeven threshold       *)
(* (90 s) not above maxTradeSeconds, updatePosition never returns reason   *)
(* timeout-green, and whenever it returns timeout-red the net pnl lies in  *)
(* [underwaterMinLoss, 0) provided underwaterCutSeconds <= maxTradeSeconds.*)
(* (LadderSpec)                                                            *)
(***************************************************************************)
C37_TimeoutNeverGreen ==
    /\ breakevenSeconds <= maxTradeSeconds
    /\ underwaterCutSeconds <= maxTradeSeconds
    /\ verdict # NoUpdate =>
         /\ verdict.reason # "timeout-green"
         /\ verdict.reason = "timeout-red" =>
              /\ NetPnl(probe.position, probe.price) >= underwaterMinLoss
              /\ NetPnl(probe.position, probe.price) < 0
              /\ probe.t - probe.position.entryTime >= maxTradeSeconds

\* a Long a few dollars under water when its time is up
C37_Witness ==
    /\ verdict # NoUpdate
    /\ verdict.shouldClose
    /\ verdict.reason = "timeout-red"
    /\ probe.position.side = "Long"
    /\ probe.t - probe.position.entryTime = maxTradeSeconds
    /\ NetPnl(probe.position, probe.price) > underwaterMinLoss

(***************************************************************************)
(* C38: canOpenPosition changes at most tradesThisHour and lastHourReset,  *)
(* and changes them only when the pause, max-positions and daily-loss      *)
(* checks have all passed and more than 60 minutes have elapsed since      *)
(* lastHourReset; when it returns on one of the first three checks the     *)
(* ledger state is unchanged.  (GateSpec)                                  *)
(***************************************************************************)
GateCalled ==
    probe = NoFile /\ probe' # NoFile /\ probe'.call = "canOpenPosition"

C38_FirstChecksPass ==
    /\ ~(ledger.pausedUntil # 0 /\ now < ledger.pausedUntil)
    /\ Len(openPositions(ledger)) < maxPositions
    /\ Abs(ledger.dailyPnl) < maxDailyLossDollars

C38_CanOpenFrame ==
    [][GateCalled =>
         /\ DOMAIN ledger' = DOMAIN ledger
         /\ \A f \in DOMAIN ledger \ {"tradesThisHour", "lastHourReset"} :
               ledger'[f] = ledger[f]
         /\ file' = file
         /\ ledger' # ledger =>
              /\ C38_FirstChecksPass
              /\ now - ledger.lastHourReset > HourSeconds
              /\ ledger'.tradesThisHour = 0
              /\ ledger'.lastHourReset = now
         /\ gate'.reason \in {"paused", "max-positions", "daily-loss"} =>
              ledger' = ledger
         /\ ~C38_FirstChecksPass =>
              /\ ledger' = ledger
              /\ gate'.reason \in {"paused", "max-positions", "daily-loss"}
    ]_vars

\* the call that found a full hourly counter more than an hour old
C38_Witness ==
    /\ probe # NoFile
    /\ probe.call = "canOpenPosition"
    /\ probe.ledger.tradesThisHour = maxTradesPerHour
    /\ probe.t - probe.ledger.lastHourReset > HourSeconds
    /\ ledger # probe.ledger
    /\ ledger.tradesThisHour = 0
    /\ ledger.lastHourReset = probe.t
    /\ gate.allowed

(***************************************************************************)
(* C39: the daily loss cap blocks on losses only: canOpenPosition returns  *)
(* the daily-loss-limit reason only when dailyPnl <= -maxDailyLossDollars, *)
(* never when dailyPnl is positive.  (LedgerSpec; gate holds the answer of *)
(* the call made in the current ledger state)                              *)
(***************************************************************************)
C39_LossesOnly ==
    (gate # NoGate /\ gate.reason = "daily-loss") =>
        /\ ledger.dailyPnl <= -maxDailyLossDollars
        /\ ~(ledger.dailyPnl > 0)

\* the refusal after winning closes only, each position closed once: the
\* day's profit has reached the figure of the loss cap
C39_ProfitBlocked ==
    ~( /\ gate # NoGate
       /\ gate.reason = "daily-loss"
       /\ ledger.dailyPnl >= maxDailyLossDollars
       /\ ledger.consecutiveLosses = 0
       /\ openPositions(ledger) = << >>
       /\ \A i \in 1..Len(ledger.positions) : ledger.positions[i].pnl > 0
       /\ ledger.dailyPnl =
            SumSeq([i \in 1..Len(ledger.positions) |-> ledger.positions[i].pnl]) )

(***************************************************************************)
(* C40: version tracking.  After a push returns success the cached version *)
(* token equals the remote object's current version, so the next push by   *)
(* the same process, with no write by another writer in between, succeeds  *)
(* on its first put.  (VersionSpec; a put that the remote never answers is *)
(* a failure of the network, not of the version)                           *)
(***************************************************************************)
\* the step on which a push returns true
C40_ReturnsTrue == push.pc # "done" /\ push'.pc = "done" /\ push'.result = "true"

\* the first put of a call, answered by the remote
C40_FirstPut ==
    push.pc = "put" /\ push.puts = 0 /\ push'.puts = 1 /\ faults' = faults

C40_CachedIsCurrent ==
    (probe.last = "true" /\ ~probe.foreign) => sha = remote /\ sha # NoFile

C40_VersionTracking ==
    /\ [][C40_ReturnsTrue => sha' = remote' /\ sha' = push'.content]_vars
    /\ []C40_CachedIsCurrent
    /\ [][(C40_FirstPut /\ probe.last = "true" /\ ~probe.foreign) =>
            /\ push'.pc = "done"
            /\ push'.result = "true"
            /\ push'.conflicts = 0
            /\ push'.refetches = 0
            /\ remote' = push.content]_vars

\* the second push of a process, of a file saved since the first, returning
\* true after one put with no fault and no other writer
C40_Witness ==
    /\ clock = 2
    /\ faults = 0
    /\ probe.prev = "true"
    /\ probe.last = "true"
    /\ ~probe.foreign
    /\ push.pc = "done"
    /\ push.result = "true"
    /\ push.puts = 1
    /\ push.conflicts = 0
    /\ sha = remote
    /\ remote = file
    /\ file.positions # << >>

====
